---- MODULE Spec2Model ----
(***************************************************************************)
(* Model of the tax-form annotation utilities (utils module):              *)
(*   - resolveJSONPath / setJSONPath over a nested data record,            *)
(*   - evaluateConditionalLogic / evaluateCondition over a blueprint.      *)
(*                                                                         *)
(* Strings are sequences of one-character strings, so that startsWith,    *)
(* slice, split and the segment regular expressions are computed as the    *)
(* code computes them.  JavaScript objects and arrays live in a heap       *)
(* (a sequence of objects addressed by their index), so that object        *)
(* identity and in-place mutation are visible.                             *)
(***************************************************************************)
EXTENDS Integers, Sequences, FiniteSets, TLC

VARIABLES
    logic,    \* the conditional logic handed to evaluateConditionalLogic
    heap,     \* the object store: heap[i] is the object with identity i
    data,     \* the record handed to the operations (a value)
    blueprint,\* the form blueprint handed to the operations
    call,     \* the last operation called, with its arguments
    before,   \* the object store as it was when the last operation was called
    result,   \* outcome of the last operation: a returned value or a throw
    nsets,    \* number of setJSONPath calls made so far
    condition,\* the condition handed to evaluateCondition
    field,    \* the field annotation handed to validateField
    fieldValue, \* the value handed to validateField
    args      \* the arguments handed to the formatting and blueprint utilities

vars == <<logic, heap, data, blueprint, call, before, result, nsets, condition, field, fieldValue, args>>

----------------------------------------------------------------------------
(* Bounds *)

MaxSegs == 2
MaxSets == 1
MaxConds == 3
MaxRules == 2
MaxFields == 2
MaxDecimals == 2
MaxCalls == 2

----------------------------------------------------------------------------
(* JavaScript values *)

Undef     == [t |-> "undefined"]
Null      == [t |-> "null"]
Num(n)    == [t |-> "number", n |-> n]
Bool(b)   == [t |-> "boolean", b |-> b]
Str(s)    == [t |-> "string", s |-> s]
Ref(i)    == [t |-> "ref", id |-> i]

\* typeof v
TypeOf(v) == IF v.t \in {"null", "ref"} THEN "object" ELSE v.t

\* !v is true
Falsy(v) ==
    \/ v.t \in {"undefined", "null"}
    \/ v.t = "number" /\ v.n = 0
    \/ v.t = "boolean" /\ ~v.b
    \/ v.t = "string" /\ v.s = <<>>

NoProps == [k \in {} |-> Undef]
Obj(props) == [isArr |-> FALSE, props |-> props]

DigitChars == <<"0", "1", "2", "3", "4", "5", "6", "7", "8", "9">>
Digits == {DigitChars[i] : i \in 1..10}
Letters == {"a", "b", "c", "d", "e", "f", "g", "h", "i", "j", "k", "l", "m", "n", "o", "p",
            "q", "r", "s", "t", "u", "v", "w", "x", "y", "z", "O"}
DigitVal(c) == (CHOOSE i \in 1..10 : DigitChars[i] = c) - 1

\* String(n) for a non-negative integer: the canonical array-index key
RECURSIVE ToStr(_)
ToStr(n) == IF n < 10 THEN <<DigitChars[n + 1]>>
            ELSE ToStr(n \div 10) \o <<DigitChars[(n % 10) + 1]>>

\* parseInt(s, 10) for a non-empty string of digits
RECURSIVE ParseInt(_)
ParseInt(s) == IF Len(s) = 1 THEN DigitVal(s[1])
               ELSE 10 * ParseInt(SubSeq(s, 1, Len(s) - 1)) + DigitVal(s[Len(s)])

Arr(elems) == [isArr |-> TRUE,
               props |-> [k \in {ToStr(i - 1) : i \in 1..Len(elems)} |-> elems[ParseInt(k) + 1]]]

IsArray(h, v) == v.t = "ref" /\ h[v.id].isArr

\* an array's length: one more than its largest index key
IsIndexKey(k) == k # <<>> /\ (\A i \in 1..Len(k) : k[i] \in Digits) /\ ToStr(ParseInt(k)) = k
ArrLength(o) ==
    LET idx == {ParseInt(k) : k \in {kk \in DOMAIN o.props : IsIndexKey(kk)}}
    IN IF idx = {} THEN 0 ELSE (CHOOSE m \in idx : \A j \in idx : j <= m) + 1

\* v[key] for a value that is neither null nor undefined
Get(h, v, key) ==
    IF v.t = "ref"
    THEN IF key \in DOMAIN h[v.id].props THEN h[v.id].props[key] ELSE Undef
    ELSE IF v.t = "string" /\ IsIndexKey(key) /\ ParseInt(key) < Len(v.s)
         THEN Str(<<v.s[ParseInt(key) + 1]>>)
         ELSE Undef

\* v[key] = x on an object; on a primitive the assignment throws (strict mode)
CanPut(v) == v.t = "ref"
Put_Clobber(h, v, key, x) == [h EXCEPT ![v.id].props = (key :> x)]

Put(h, v, key, x) == [h EXCEPT ![v.id].props = (key :> x) @@ @]

Return(v) == [kind |-> "return", value |-> v]
Throw(e)  == [kind |-> "throw", error |-> e]

----------------------------------------------------------------------------
(* Path strings *)

StartsWithRoot(path) == Len(path) >= 1 /\ path[1] = "$"

\* s.split(".")
RECURSIVE Split(_, _, _)
Split(s, cur, acc) ==
    IF s = <<>> THEN Append(acc, cur)
    ELSE IF Head(s) = "." THEN Split(Tail(s), <<>>, Append(acc, cur))
    ELSE Split(Tail(s), Append(cur, Head(s)), acc)

\* path.slice(1)
Slice1(s) == IF s = <<>> THEN <<>> ELSE Tail(s)

\* path.slice(1).split(".").filter((s) => s.length > 0)
Segments(path) == SelectSeq(Split(Slice1(path), <<>>, <<>>), LAMBDA s : Len(s) > 0)

WordChar(c) == c \in Letters \cup Digits \cup {"_"}

\* segment.match(/^(\w+)\[(\d+|\*)\]$/)   (wild = TRUE)
\* segment.match(/^(\w+)\[(\d+)\]$/)      (wild = FALSE)
BracketAt(seg, i, wild) ==
    /\ seg[i] = "["
    /\ seg[Len(seg)] = "]"
    /\ \A j \in 1..(i - 1) : WordChar(seg[j])
    /\ LET inner == SubSeq(seg, i + 1, Len(seg) - 1)
       IN \/ wild /\ inner = <<"*">>
          \/ inner # <<>> /\ \A j \in 1..Len(inner) : inner[j] \in Digits

SegMatch(seg, wild) ==
    IF \E i \in 2..(Len(seg) - 2) : BracketAt(seg, i, wild)
    THEN LET i == CHOOSE i \in 2..(Len(seg) - 2) : BracketAt(seg, i, wild)
         IN [ok |-> TRUE, propName |-> SubSeq(seg, 1, i - 1),
             index |-> SubSeq(seg, i + 1, Len(seg) - 1)]
    ELSE [ok |-> FALSE, propName |-> <<>>, index |-> <<>>]

----------------------------------------------------------------------------
(* resolveJSONPath *)

IsNullish_OnlyUndefined(v) == v.t = "undefined"

\* current === null || current === undefined
IsNullish(v) == v.t \in {"undefined", "null"}

\* reading a property of null or undefined raises a TypeError
ReadThrows(v) == v.t \in {"undefined", "null"}

ElementAt_Clamped(h, arr, index) ==
    LET n == ArrLength(h[arr.id])
        i == ParseInt(index)
    IN Get(h, arr, ToStr(IF i >= n /\ n > 0 THEN n - 1 ELSE i))

\* const index = parseInt(indexOrWildcard, 10); current = current[index]
ElementAt(h, arr, index) == Get(h, arr, ToStr(ParseInt(index)))

AllElements_First(h, arr) == Get(h, arr, <<"0">>)

\* if (indexOrWildcard === "*") return current
AllElements(h, arr) == arr

\* the body of "for (const segment of segments)", from segment i on
RECURSIVE ResolveWalk(_, _, _, _)
ResolveWalk(h, segs, i, current) ==
    IF i > Len(segs) THEN Return(current)
    ELSE IF IsNullish(current) THEN Return(Undef)
    ELSE IF TypeOf(current) # "object" THEN Return(Undef)
    ELSE IF ReadThrows(current) THEN Throw("TypeError")
    ELSE LET m == SegMatch(segs[i], TRUE)
         IN IF m.ok
            THEN LET arr == Get(h, current, m.propName)
                 IN IF ~IsArray(h, arr) THEN Return(Undef)
                    ELSE IF m.index = <<"*">> THEN Return(AllElements(h, arr))
                    ELSE ResolveWalk(h, segs, i + 1, ElementAt(h, arr, m.index))
            ELSE ResolveWalk(h, segs, i + 1, Get(h, current, segs[i]))

ResolveJSONPath(path, h, d) ==
    IF ~StartsWithRoot(path) THEN Throw("Error")
    ELSE ResolveWalk(h, Segments(path), 1, d)

----------------------------------------------------------------------------
(* setJSONPath *)

UndefinedKey == <<"u", "n", "d", "e", "f", "i", "n", "e", "d">>

\* if (!c[key]) { c[key] = fresh }
Missing(v) == Falsy(v)

Ensure(h, c, key, fresh) ==
    IF ~Missing(Get(h, c, key)) THEN [ok |-> TRUE, heap |-> h]
    ELSE IF ~CanPut(c) THEN [ok |-> FALSE, heap |-> h]
    ELSE [ok |-> TRUE, heap |-> Put(Append(h, fresh), c, key, Ref(Len(h) + 1))]

\* the loop "for (let i = 0; i < segments.length - 1; i++)", from segment i on;
\* yields the store and the container the last segment is assigned on
RECURSIVE SetWalk(_, _, _, _)
SetWalk(h, segs, i, current) ==
    IF i > Len(segs) - 1 THEN [ok |-> TRUE, heap |-> h, current |-> current]
    ELSE LET m == SegMatch(segs[i], FALSE)
         IN IF m.ok
            THEN LET e1 == Ensure(h, current, m.propName, Arr(<<>>))
                 IN IF ~e1.ok THEN [ok |-> FALSE, heap |-> e1.heap, current |-> current]
                    ELSE LET arr == Get(e1.heap, current, m.propName)
                             key == ToStr(ParseInt(m.index))
                             e2  == Ensure(e1.heap, arr, key, Obj(NoProps))
                         IN IF ~e2.ok THEN [ok |-> FALSE, heap |-> e2.heap, current |-> arr]
                            ELSE SetWalk(e2.heap, segs, i + 1, Get(e2.heap, arr, key))
            ELSE LET e == Ensure(h, current, segs[i], Obj(NoProps))
                 IN IF ~e.ok THEN [ok |-> FALSE, heap |-> e.heap, current |-> current]
                    ELSE SetWalk(e.heap, segs, i + 1, Get(e.heap, current, segs[i]))

\* const lastSegment = segments[segments.length - 1]; current[lastSegment] = value
LastSegment(segs) == IF segs = <<>> THEN UndefinedKey ELSE segs[Len(segs)]

\* the root check made after the walk and the assignment
SetJSONPath_LateCheck(path, h, d, value) ==
    LET segs == Segments(path)
        w    == SetWalk(h, segs, 1, d)
    IN IF ~w.ok \/ ~CanPut(w.current) THEN [heap |-> w.heap, outcome |-> Throw("TypeError")]
       ELSE IF ~StartsWithRoot(path)
            THEN [heap |-> Put(w.heap, w.current, LastSegment(segs), value),
                  outcome |-> Throw("Error")]
            ELSE [heap |-> Put(w.heap, w.current, LastSegment(segs), value),
                  outcome |-> Return(d)]

\* the walk made on a shallow copy of the record, which is returned
SetJSONPath_Copy(path, h, d, value) ==
    IF ~StartsWithRoot(path) THEN [heap |-> h, outcome |-> Throw("Error")]
    ELSE LET segs == Segments(path)
             h0   == Append(h, h[d.id])
             c    == Ref(Len(h) + 1)
             w    == SetWalk(h0, segs, 1, c)
         IN IF ~w.ok \/ ~CanPut(w.current) THEN [heap |-> w.heap, outcome |-> Throw("TypeError")]
            ELSE [heap |-> Put(w.heap, w.current, LastSegment(segs), value),
                  outcome |-> Return(c)]

SetJSONPath(path, h, d, value) ==
    IF ~StartsWithRoot(path) THEN [heap |-> h, outcome |-> Throw("Error")]
    ELSE LET segs == Segments(path)
             w    == SetWalk(h, segs, 1, d)
         IN IF ~w.ok THEN [heap |-> w.heap, outcome |-> Throw("TypeError")]
            ELSE IF ~CanPut(w.current) THEN [heap |-> w.heap, outcome |-> Throw("TypeError")]
            ELSE [heap |-> Put(w.heap, w.current, LastSegment(segs), value),
                  outcome |-> Return(d)]

----------------------------------------------------------------------------
(* evaluateCondition / evaluateConditionalLogic *)

List(items) == [t |-> "list", items |-> items]

\* blueprint.pages[*].fields.find((f) => f.id === fieldId), first page first
FieldsOf(bp) ==
    LET RECURSIVE Cat(_)
        Cat(ps) == IF ps = <<>> THEN <<>> ELSE Head(ps).fields \o Cat(Tail(ps))
    IN Cat(bp.pages)
FindFieldById_FirstPage(bp, fieldId) ==
    LET fs == IF bp.pages = <<>> THEN <<>>
              ELSE SelectSeq(bp.pages[1].fields, LAMBDA f : f.id = fieldId)
    IN IF fs = <<>> THEN [found |-> FALSE] ELSE [found |-> TRUE, field |-> Head(fs)]

FindFieldById(bp, fieldId) ==
    LET fs == SelectSeq(FieldsOf(bp), LAMBDA f : f.id = fieldId)
    IN IF fs = <<>> THEN [found |-> FALSE] ELSE [found |-> TRUE, field |-> Head(fs)]

\* the elements of an array value, holes read as undefined
Elements(h, v) ==
    IF v.t = "list" THEN v.items
    ELSE [i \in 1..ArrLength(h[v.id]) |-> Get(h, v, ToStr(i - 1))]

\* String(v)
RECURSIVE ToStringV(_, _)
ToStringV(h, v) ==
    CASE v.t = "undefined" -> <<"u", "n", "d", "e", "f", "i", "n", "e", "d">>
      [] v.t = "null"      -> <<"n", "u", "l", "l">>
      [] v.t = "boolean"   -> IF v.b THEN <<"t", "r", "u", "e">> ELSE <<"f", "a", "l", "s", "e">>
      [] v.t = "number"    -> IF v.n < 0 THEN <<"-">> \o ToStr(-v.n) ELSE ToStr(v.n)
      [] v.t = "string"    -> v.s
      [] v.t = "ref" /\ ~h[v.id].isArr ->
            <<"[", "o", "b", "j", "e", "c", "t", " ", "O", "b", "j", "e", "c", "t", "]">>
      [] OTHER ->
            LET es == Elements(h, v)
                RECURSIVE JoinFrom(_)
                JoinFrom(i) ==
                    IF i > Len(es) THEN <<>>
                    ELSE (IF i > 1 THEN <<",">> ELSE <<>>)
                         \o (IF es[i].t \in {"undefined", "null"} THEN <<>> ELSE ToStringV(h, es[i]))
                         \o JoinFrom(i + 1)
            IN JoinFrom(1)

NaN == [nan |-> TRUE, n |-> 0]
Finite(n) == [nan |-> FALSE, n |-> n]

\* Number(s) for a string: "" is 0, a string of digits its value, anything else NaN
StringToNumber(s) ==
    IF s = <<>> THEN Finite(0)
    ELSE IF \A i \in 1..Len(s) : s[i] \in Digits THEN Finite(ParseInt(s))
    ELSE NaN

\* Number(v)
ToNumber(h, v) ==
    CASE v.t = "undefined" -> NaN
      [] v.t = "null"      -> Finite(0)
      [] v.t = "boolean"   -> Finite(IF v.b THEN 1 ELSE 0)
      [] v.t = "number"    -> Finite(v.n)
      [] v.t = "string"    -> StringToNumber(v.s)
      [] OTHER             -> StringToNumber(ToStringV(h, v))

\* s.includes(t)
Includes(s, t) == \E i \in 0..(Len(s) - Len(t)) : SubSeq(s, i + 1, i + Len(t)) = t

\* new RegExp(p).test(s) for a pattern of literal word characters with an
\* optional leading ^ and trailing $
PatternTest(p, s) ==
    LET atStart == p # <<>> /\ Head(p) = "^"
        p1      == IF atStart THEN Tail(p) ELSE p
        atEnd   == p1 # <<>> /\ p1[Len(p1)] = "$"
        lit     == IF atEnd THEN SubSeq(p1, 1, Len(p1) - 1) ELSE p1
    IN \E i \in 0..(Len(s) - Len(lit)) :
          /\ SubSeq(s, i + 1, i + Len(lit)) = lit
          /\ atStart => i = 0
          /\ atEnd => i + Len(lit) = Len(s)

\* the source value: a path against the record, or the binding path of a field
SourceValue(cond, h, d, bp) ==
    IF StartsWithRoot(cond.source)
    THEN ResolveJSONPath(cond.source, h, d)
    ELSE LET f == FindFieldById(bp, cond.source)
         IN IF f.found THEN ResolveJSONPath(f.field.dataBinding.path, h, d)
            ELSE Return(Undef)

\* switch (condition.operator) on a resolved source value
Compare_NotContains(op, sv, tv, h) ==
    CASE op = "eq"  -> sv = tv
      [] op = "neq" -> sv # tv
      [] op = "gt"  -> ~ToNumber(h, sv).nan /\ ~ToNumber(h, tv).nan /\ ToNumber(h, sv).n > ToNumber(h, tv).n
      [] op = "gte" -> ~ToNumber(h, sv).nan /\ ~ToNumber(h, tv).nan /\ ToNumber(h, sv).n >= ToNumber(h, tv).n
      [] op = "lt"  -> ~ToNumber(h, sv).nan /\ ~ToNumber(h, tv).nan /\ ToNumber(h, sv).n < ToNumber(h, tv).n
      [] op = "lte" -> ~ToNumber(h, sv).nan /\ ~ToNumber(h, tv).nan /\ ToNumber(h, sv).n <= ToNumber(h, tv).n
      [] op = "contains" -> Includes(ToStringV(h, sv), ToStringV(h, tv))
      [] op = "not_contains" -> ~Includes(ToStringV(h, sv), ToStringV(h, tv))
      [] op = "is_empty" -> sv = Null \/ sv = Undef \/ sv = Str(<<>>)
      [] op = "is_not_empty" -> sv # Null /\ sv # Undef /\ sv # Str(<<>>)
      [] op = "in" -> tv.t = "list" /\ \E i \in 1..Len(tv.items) : tv.items[i] = sv
      [] op = "not_in" -> tv.t = "list" => ~\E i \in 1..Len(tv.items) : tv.items[i] = sv
      [] op = "matches_pattern" -> sv.t = "string" /\ tv.t = "string" /\ PatternTest(tv.s, sv.s)
      [] OTHER -> FALSE

Compare(op, sv, tv, h) ==
    CASE op = "eq"  -> sv = tv
      [] op = "neq" -> sv # tv
      [] op = "gt"  -> ~ToNumber(h, sv).nan /\ ~ToNumber(h, tv).nan /\ ToNumber(h, sv).n > ToNumber(h, tv).n
      [] op = "gte" -> ~ToNumber(h, sv).nan /\ ~ToNumber(h, tv).nan /\ ToNumber(h, sv).n >= ToNumber(h, tv).n
      [] op = "lt"  -> ~ToNumber(h, sv).nan /\ ~ToNumber(h, tv).nan /\ ToNumber(h, sv).n < ToNumber(h, tv).n
      [] op = "lte" -> ~ToNumber(h, sv).nan /\ ~ToNumber(h, tv).nan /\ ToNumber(h, sv).n <= ToNumber(h, tv).n
      [] op = "contains" -> Includes(ToStringV(h, sv), ToStringV(h, tv))
      [] op = "is_empty" -> sv = Null \/ sv = Undef \/ sv = Str(<<>>)
      [] op = "is_not_empty" -> sv # Null /\ sv # Undef /\ sv # Str(<<>>)
      [] op = "in" -> tv.t = "list" /\ \E i \in 1..Len(tv.items) : tv.items[i] = sv
      [] op = "not_in" -> tv.t = "list" => ~\E i \in 1..Len(tv.items) : tv.items[i] = sv
      [] op = "matches_pattern" -> sv.t = "string" /\ tv.t = "string" /\ PatternTest(tv.s, sv.s)
      [] OTHER -> FALSE

\* evaluateCondition: a boolean, or the error resolving the source raised
EvaluateCondition(cond, h, d, bp) ==
    LET sv == SourceValue(cond, h, d, bp)
    IN IF sv.kind = "throw" THEN sv
       ELSE Return(Bool(Compare(cond.operator, sv.value, cond.value, h)))

\* results.filter((r) => r).length
CountTrue(results) == Len(SelectSeq(results, LAMBDA r : r))

Combine_Parity(op, results) ==
    CASE op = "and" -> \A i \in 1..Len(results) : results[i]
      [] op = "or"  -> \E i \in 1..Len(results) : results[i]
      [] op = "not" -> IF results = <<>> THEN TRUE ELSE ~results[1]
      [] op = "xor" -> CountTrue(results) % 2 = 1
      [] OTHER -> FALSE

Combine_NotAny(op, results) ==
    CASE op = "and" -> \A i \in 1..Len(results) : results[i]
      [] op = "or"  -> \E i \in 1..Len(results) : results[i]
      [] op = "not" -> ~\E i \in 1..Len(results) : results[i]
      [] op = "xor" -> CountTrue(results) = 1
      [] OTHER -> FALSE

\* switch (logic.operator) on the list of results; !results[0] of an empty
\* list is !undefined
Combine(op, results) ==
    CASE op = "and" -> \A i \in 1..Len(results) : results[i]
      [] op = "or"  -> \E i \in 1..Len(results) : results[i]
      [] op = "not" -> IF results = <<>> THEN TRUE ELSE ~results[1]
      [] op = "xor" -> CountTrue(results) = 1
      [] OTHER -> FALSE

\* logic.conditions.map(evaluateCondition), then the switch; the first
\* condition that throws ends the call
EvaluateConditionalLogic(lg, h, d, bp) ==
    LET rs == [i \in 1..Len(lg.conditions) |-> EvaluateCondition(lg.conditions[i], h, d, bp)]
    IN IF \E i \in 1..Len(rs) : rs[i].kind = "throw"
       THEN rs[CHOOSE i \in 1..Len(rs) : rs[i].kind = "throw" /\ \A j \in 1..(i - 1) : rs[j].kind # "throw"]
       ELSE Return(Bool(Combine(lg.operator, [i \in 1..Len(rs) |-> rs[i].value.b])))

----------------------------------------------------------------------------
(* validateField / validateRule / validateForm *)

\* an optional property of a blueprint object is a key its record may lack
Has(r, k) == k \in DOMAIN r

\* rule.severity ?? ValidationSeverity.ERROR
RuleSeverity_Warning(rule) == IF Has(rule, "severity") THEN rule.severity ELSE "warning"

RuleSeverity(rule) == IF Has(rule, "severity") THEN rule.severity ELSE "error"

\* the ValidationError object a failing rule returns (lineNumber left out);
\* a property the object literal does not set reads undefined
ValidationError(fld, rule, actual, expected) ==
    [fieldId |-> fld.id, message |-> rule.message, severity |-> RuleSeverity(rule),
     rule |-> rule.type, actualValue |-> actual, expectedValue |-> expected]

\* validateRule returns null when the rule passes
NoError == Null

\* case ValidationType.REQUIRED
RequiredError_Falsy(fld, v, rule) ==
    IF Falsy(v) THEN ValidationError(fld, rule, v, Undef) ELSE NoError

RequiredError(fld, v, rule) ==
    IF v = Null \/ v = Undef \/ v = Str(<<>>)
    THEN ValidationError(fld, rule, v, Undef)
    ELSE NoError

\* rule.length as a value
LengthOf(rule) == IF Has(rule, "length") THEN Num(rule.length) ELSE Undef

\* case ValidationType.MIN_LENGTH: value.length < (rule.length ?? 0)
MinLengthError_AbsentIsShort(fld, v, rule) ==
    LET len == IF TypeOf(v) = "string" THEN Len(v.s) ELSE 0
    IN IF (TypeOf(v) = "string" \/ v \in {Undef, Null})
          /\ len < (IF Has(rule, "length") THEN rule.length ELSE 0)
       THEN ValidationError(fld, rule, Num(len), LengthOf(rule))
       ELSE NoError

MinLengthError(fld, v, rule) ==
    IF TypeOf(v) = "string" /\ Len(v.s) < (IF Has(rule, "length") THEN rule.length ELSE 0)
    THEN ValidationError(fld, rule, Num(Len(v.s)), LengthOf(rule))
    ELSE NoError

\* case ValidationType.MAX_LENGTH: value.length > (rule.length ?? Infinity)
MaxLengthError(fld, v, rule) ==
    IF TypeOf(v) = "string" /\ Has(rule, "length") /\ Len(v.s) > rule.length
    THEN ValidationError(fld, rule, Num(Len(v.s)), LengthOf(rule))
    ELSE NoError

\* case ValidationType.PATTERN: a rule without a pattern, or with "", passes
PatternError(fld, v, rule) ==
    IF TypeOf(v) = "string" /\ Has(rule, "pattern") /\ rule.pattern # <<>>
       /\ ~PatternTest(rule.pattern, v.s)
    THEN ValidationError(fld, rule, v, Str(rule.pattern))
    ELSE NoError

\* `min: ${rule.min}` and `max: ${rule.max}`
MinLabel(h, n) == Str(<<"m", "i", "n", ":", " ">> \o ToStringV(h, Num(n)))
MaxLabel(h, n) == Str(<<"m", "a", "x", ":", " ">> \o ToStringV(h, Num(n)))

\* case ValidationType.RANGE
RangeError_MaxFirst(fld, v, rule, h) ==
    IF TypeOf(v) = "number"
    THEN IF Has(rule, "max") /\ v.n > rule.max
         THEN ValidationError(fld, rule, v, MaxLabel(h, rule.max))
         ELSE IF Has(rule, "min") /\ v.n < rule.min
         THEN ValidationError(fld, rule, v, MinLabel(h, rule.min))
         ELSE NoError
    ELSE NoError

RangeError(fld, v, rule, h) ==
    IF TypeOf(v) = "number"
    THEN IF Has(rule, "min") /\ v.n < rule.min
         THEN ValidationError(fld, rule, v, MinLabel(h, rule.min))
         ELSE IF Has(rule, "max") /\ v.n > rule.max
         THEN ValidationError(fld, rule, v, MaxLabel(h, rule.max))
         ELSE NoError
    ELSE NoError

\* switch (rule.type); the kinds without a case (custom, cross_field, luhn)
\* fall through to return null
ValidateRule(fld, v, rule, h) ==
    CASE rule.type = "required"   -> RequiredError(fld, v, rule)
      [] rule.type = "min_length" -> MinLengthError(fld, v, rule)
      [] rule.type = "max_length" -> MaxLengthError(fld, v, rule)
      [] rule.type = "pattern"    -> PatternError(fld, v, rule)
      [] rule.type = "range"      -> RangeError(fld, v, rule, h)
      [] OTHER -> NoError

\* for (const rule of field.validations) push the error of each failing rule
ValidateField_FirstOnly(fld, v, h) ==
    IF ~Has(fld, "validations") THEN <<>>
    ELSE LET es == SelectSeq([i \in 1..Len(fld.validations) |->
                                 ValidateRule(fld, v, fld.validations[i], h)],
                             LAMBDA e : e # NoError)
         IN IF es = <<>> THEN <<>> ELSE <<Head(es)>>

ValidateField(fld, v, h) ==
    IF ~Has(fld, "validations") THEN <<>>
    ELSE SelectSeq([i \in 1..Len(fld.validations) |->
                       ValidateRule(fld, v, fld.validations[i], h)],
                   LAMBDA e : e # NoError)

\* !shouldShow && field.conditionalLogic.action === ConditionalAction.SHOW,
\* or the error evaluateConditionalLogic raised
SkipWhen_WheneverFalse(shouldShow, action) ==
    IF shouldShow.kind = "throw" THEN shouldShow
    ELSE Return(Bool(~shouldShow.value.b))

SkipWhen(shouldShow, action) ==
    IF shouldShow.kind = "throw" THEN shouldShow
    ELSE Return(Bool(~shouldShow.value.b /\ action = "show"))

\* the test that makes validateForm pass over a field; a field without
\* conditional logic is never passed over
SkipField(fld, h, d, bp) ==
    IF ~Has(fld, "conditionalLogic") THEN Return(Bool(FALSE))
    ELSE SkipWhen(EvaluateConditionalLogic(fld.conditionalLogic, h, d, bp),
                  fld.conditionalLogic.action)

\* validateField on the resolved value, or the error resolving it raised
ValidateResolved(v, fld, h) ==
    IF v.kind = "throw" THEN v ELSE Return(ValidateField(fld, v.value, h))

\* the body of the loop for one field: the errors validateField returns for
\* it, none when the field is passed over, or the error raised
FieldErrorsWhen(skip, fld, h, d) ==
    IF skip.kind = "throw" THEN skip
    ELSE IF skip.value.b THEN Return(<<>>)
    ELSE ValidateResolved(ResolveJSONPath(fld.dataBinding.path, h, d), fld, h)

FieldErrors(fld, h, d, bp) == FieldErrorsWhen(SkipField(fld, h, d, bp), fld, h, d)

\* error.severity === ValidationSeverity.ERROR ? errors : warnings
IsErrorItem_NotWarning(e) == e.severity # "warning"

IsErrorItem(e) == e.severity = "error"

\* the ValidationResult: the errors pushed in order to one of the two lists
Bucket(errors, warnings) ==
    Return([isValid |-> Len(errors) = 0, errors |-> errors, warnings |-> warnings])

\* the concatenation of a list of returned lists
RECURSIVE Flatten(_)
Flatten(ls) == IF ls = <<>> THEN <<>> ELSE Head(ls).value \o Flatten(Tail(ls))

\* the outcome of the loop over the fields: the first throw ends the call
Collect(per) ==
    IF \E i \in 1..Len(per) : per[i].kind = "throw"
    THEN per[CHOOSE i \in 1..Len(per) :
                per[i].kind = "throw" /\ \A j \in 1..(i - 1) : per[j].kind # "throw"]
    ELSE Bucket(SelectSeq(Flatten(per), IsErrorItem),
                SelectSeq(Flatten(per), LAMBDA e : ~IsErrorItem(e)))

\* validateForm: the fields in page order then field order
ValidateForm(bp, h, d) ==
    Collect([i \in 1..Len(FieldsOf(bp)) |-> FieldErrors(FieldsOf(bp)[i], h, d, bp)])

----------------------------------------------------------------------------
(* getMergedFormatting *)

\* {}
NoStyle == [k \in {} |-> Undef]

\* { ...a, ...b }: a fresh object, the keys of b winning
Overlay(a, b) == b @@ a

\* delete o[k]
Without(o, k) == [x \in DOMAIN o \ {k} |-> o[x]]

\* blueprint.globalStyles?.typeDefaults?.[field.dataType]
TypeDefaultsDefined(bp, fld) ==
    /\ Has(bp, "globalStyles")
    /\ Has(bp.globalStyles, "typeDefaults")
    /\ fld.dataType \in DOMAIN bp.globalStyles.typeDefaults

\* field.stylePreset && blueprint.stylePresets?.[field.stylePreset]
PresetDefined(bp, fld) ==
    /\ Has(fld, "stylePreset") /\ fld.stylePreset # ""
    /\ Has(bp, "stylePresets")
    /\ fld.stylePreset \in DOMAIN bp.stylePresets

\* steps 2 to 4: each an overlay on a fresh object
OverlayTiers_PresetLast(merged, bp, fld) ==
    LET m2 == IF TypeDefaultsDefined(bp, fld)
              THEN Overlay(merged, bp.globalStyles.typeDefaults[fld.dataType]) ELSE merged
        m3 == IF Has(fld, "formatting") THEN Overlay(m2, fld.formatting) ELSE m2
    IN IF PresetDefined(bp, fld) THEN Overlay(m3, bp.stylePresets[fld.stylePreset]) ELSE m3

OverlayTiers(merged, bp, fld) ==
    LET m2 == IF TypeDefaultsDefined(bp, fld)
              THEN Overlay(merged, bp.globalStyles.typeDefaults[fld.dataType]) ELSE merged
        m3 == IF PresetDefined(bp, fld) THEN Overlay(m2, bp.stylePresets[fld.stylePreset]) ELSE m2
    IN IF Has(fld, "formatting") THEN Overlay(m3, fld.formatting) ELSE m3

\* the delete made on blueprint.globalStyles itself
GetMergedFormatting_InPlace(bp, fld) ==
    IF Has(bp, "globalStyles")
    THEN LET bp1 == [bp EXCEPT !.globalStyles = Without(@, "typeDefaults")]
         IN [blueprint |-> bp1, value |-> OverlayTiers(bp1.globalStyles, bp1, fld)]
    ELSE [blueprint |-> bp, value |-> OverlayTiers(NoStyle, bp, fld)]

\* getMergedFormatting: the merged rules, and the blueprint as the call leaves
\* it; step 1 copies globalStyles and deletes typeDefaults from the copy
GetMergedFormatting(bp, fld) ==
    [blueprint |-> bp,
     value |-> OverlayTiers(IF Has(bp, "globalStyles")
                            THEN Without(Overlay(NoStyle, bp.globalStyles), "typeDefaults")
                            ELSE NoStyle,
                            bp, fld)]

----------------------------------------------------------------------------
(* formatCurrency / formatSSN *)
(* A number is held as its count of thousandths, so that 1234567 stands    *)
(* for 1234.567; toFixed and Math.round are computed on that decimal value. *)

Abs(n) == IF n < 0 THEN -n ELSE n

RECURSIVE Pow10(_)
Pow10(d) == IF d = 0 THEN 1 ELSE 10 * Pow10(d - 1)

\* s.padStart(n, "0")
RECURSIVE PadZeros(_, _)
PadZeros(s, n) == IF Len(s) >= n THEN s ELSE PadZeros(<<"0">> \o s, n)

\* absValue.toFixed(d) for a non-negative number of m thousandths: the
\* nearest number with d decimals, the larger one on a tie
ToFixed(m, d) ==
    LET scaled == (m * Pow10(d) + 500) \div 1000
    IN ToStr(scaled \div Pow10(d))
       \o (IF d = 0 THEN <<>> ELSE <<".">> \o PadZeros(ToStr(scaled % Pow10(d)), d))

\* Math.round(absValue).toString()
RoundToString(m) == ToStr((m + 500) \div 1000)

\* parts[0].replace(/\B(?=(\d{3})+(?!\d))/g, ",") on a string of digits
RECURSIVE GroupThousands(_)
GroupThousands(s) ==
    IF Len(s) <= 3 THEN s
    ELSE GroupThousands(SubSeq(s, 1, Len(s) - 3)) \o <<",">> \o SubSeq(s, Len(s) - 2, Len(s))

\* parts.join(".")
RECURSIVE JoinDots(_)
JoinDots(parts) ==
    IF Len(parts) = 1 THEN Head(parts) ELSE Head(parts) \o <<".">> \o JoinDots(Tail(parts))

\* addThousandsSeparators(numStr)
AddThousandsSeparators(numStr) ==
    LET parts == Split(numStr, <<>>, <<>>)
    IN JoinDots([parts EXCEPT ![1] = GroupThousands(@)])

\* thousandsSeparator ? addThousandsSeparators(formatted) : formatted
Separated(formatted, thousandsSeparator) ==
    IF thousandsSeparator THEN AddThousandsSeparators(formatted) ELSE formatted

\* isNegative ? `(${formatted})` : formatted
WrapNegative_Minus(isNegative, formatted) ==
    IF isNegative THEN <<"-">> \o formatted ELSE formatted

WrapNegative(isNegative, formatted) ==
    IF isNegative THEN <<"(">> \o formatted \o <<")">> ELSE formatted

\* formatCurrency(value, format, decimalPlaces, thousandsSeparator)
FormatCurrency(v, format, decimalPlaces, thousandsSeparator) ==
    WrapNegative(v < 0,
        CASE format = "USD" ->
                <<"$">> \o Separated(ToFixed(Abs(v), decimalPlaces), thousandsSeparator)
          [] format = "USD_NO_SYMBOL" ->
                Separated(ToFixed(Abs(v), decimalPlaces), thousandsSeparator)
          [] format = "USD_WITH_CENTS" ->
                Separated(ToFixed(Abs(v), 2), thousandsSeparator)
          [] format = "USD_WHOLE" ->
                Separated(RoundToString(Abs(v)), thousandsSeparator)
          [] OTHER -> ToFixed(Abs(v), decimalPlaces))

\* ssn.replace(/\D/g, "")
IsDigitChar(c) == c \in Digits
StripNonDigits(ssn) == SelectSeq(ssn, IsDigitChar)

\* digits.length !== 9 is the case that returns the input
IsNineDigits_AtLeast(digits) == Len(digits) >= 9

IsNineDigits(digits) == Len(digits) = 9

\* digits.slice(from) and digits.slice(from, to), from and to counted from 0
SliceFrom(digits, from) == SubSeq(digits, from + 1, Len(digits))
Slice(digits, from, to) == SubSeq(digits, from + 1, to)

\* the three renderings of nine digits
RenderSSN_SeparatorsFirst(digits, showSeparators, mask) ==
    IF showSeparators
    THEN Slice(digits, 0, 3) \o <<"-">> \o Slice(digits, 3, 5) \o <<"-">> \o SliceFrom(digits, 5)
    ELSE IF mask
         THEN <<"*", "*", "*", "-", "*", "*", "-">> \o SliceFrom(digits, 5)
         ELSE digits

RenderSSN(digits, showSeparators, mask) ==
    IF mask
    THEN <<"*", "*", "*", "-", "*", "*", "-">> \o SliceFrom(digits, 5)
    ELSE IF showSeparators
         THEN Slice(digits, 0, 3) \o <<"-">> \o Slice(digits, 3, 5) \o <<"-">> \o SliceFrom(digits, 5)
         ELSE digits

\* formatSSN(ssn, showSeparators, mask)
FormatSSN(ssn, showSeparators, mask) ==
    IF ~IsNineDigits(StripNonDigits(ssn)) THEN ssn
    ELSE RenderSSN(StripNonDigits(ssn), showSeparators, mask)

(* mergeBlueprints *)
(* Pages and fields are objects of a store (a sequence indexed by object   *)
(* identity): a page holds its own properties and the identities of its    *)
(* fields, a field holds its properties; a blueprint holds the identities  *)
(* of its pages.  Two blueprints share an object when both hold its        *)
(* identity.                                                              *)

PageObject(page, fieldIds) == [page EXCEPT !.fields = fieldIds]
FieldObject(props) == [props |-> props]

\* JSON.stringify(blueprint): the blueprint as a value without identities
PageValue(h, pid) ==
    [h[pid] EXCEPT !.fields = [i \in 1..Len(h[pid].fields) |-> h[h[pid].fields[i]].props]]
Stringify(h, bp) ==
    IF Has(bp, "pages")
    THEN [bp EXCEPT !.pages = [i \in 1..Len(bp.pages) |-> PageValue(h, bp.pages[i])]]
    ELSE bp

\* JSON.parse(text): every page and every field becomes a new object
ParsePage(h, page) ==
    h \o [i \in 1..Len(page.fields) |-> FieldObject(page.fields[i])]
      \o <<PageObject(page, [i \in 1..Len(page.fields) |-> Len(h) + i])>>

RECURSIVE ParsePages(_, _, _)
ParsePages(h, pages, ids) ==
    IF pages = <<>> THEN [heap |-> h, pages |-> ids]
    ELSE ParsePages(ParsePage(h, Head(pages)), Tail(pages),
                    Append(ids, Len(h) + Len(Head(pages).fields) + 1))

Parse(h, text) ==
    IF Has(text, "pages")
    THEN LET r == ParsePages(h, text.pages, <<>>)
         IN [heap |-> r.heap, value |-> [text EXCEPT !.pages = r.pages]]
    ELSE [heap |-> h, value |-> text]

\* cloneBlueprint(blueprint)
CloneBlueprint(h, bp) == Parse(h, Stringify(h, bp))

\* o[k] = v
SetProp(o, k, v) == (k :> v) @@ o

\* { ...merged[k], ...overlay[k] } when overlay[k] is supplied
SpreadProp(merged, overlay, k) ==
    IF Has(overlay, k)
    THEN SetProp(merged, k, Overlay(IF Has(merged, k) THEN merged[k] ELSE NoStyle, overlay[k]))
    ELSE merged

\* if (overlay.version) merged.version = overlay.version
MergeVersion(merged, overlay) ==
    IF Has(overlay, "version") /\ overlay.version # ""
    THEN SetProp(merged, "version", overlay.version)
    ELSE merged

\* find / findIndex: the first position whose test holds, 0 when none does
FindIndex(tests) ==
    IF \E i \in 1..Len(tests) : tests[i]
    THEN CHOOSE i \in 1..Len(tests) : tests[i] /\ \A j \in 1..(i - 1) : ~tests[j]
    ELSE 0

\* one overlay field into a page of merged: replace the field of the same id
\* by a new object holding both fields' properties, or push the overlay's
\* field object itself
MergeField(h, basePage, overlayField) ==
    LET baseFieldIndex ==
            FindIndex([i \in 1..Len(h[basePage].fields) |->
                          h[h[basePage].fields[i]].props.id = h[overlayField].props.id])
    IN IF baseFieldIndex > 0
       THEN Append([h EXCEPT ![basePage].fields[baseFieldIndex] = Len(h) + 1],
                   FieldObject(Overlay(h[h[basePage].fields[baseFieldIndex]].props,
                                       h[overlayField].props)))
       ELSE [h EXCEPT ![basePage].fields = Append(@, overlayField)]

RECURSIVE MergeFields(_, _, _)
MergeFields(h, basePage, overlayFields) ==
    IF overlayFields = <<>> THEN h
    ELSE MergeFields(MergeField(h, basePage, Head(overlayFields)), basePage,
                     Tail(overlayFields))

\* one overlay page: merged into the page of merged with its page number, or
\* the overlay's page object itself pushed onto merged.pages
MergePage(h, pages, overlayPage) ==
    LET found == FindIndex([i \in 1..Len(pages) |->
                               h[pages[i]].pageNumber = h[overlayPage].pageNumber])
    IN IF found > 0
       THEN [heap |-> MergeFields(h, pages[found], h[overlayPage].fields), pages |-> pages]
       ELSE [heap |-> h, pages |-> Append(pages, overlayPage)]

RECURSIVE MergePages(_, _, _)
MergePages(h, pages, overlayPages) ==
    IF overlayPages = <<>> THEN [heap |-> h, pages |-> pages]
    ELSE LET r == MergePage(h, pages, Head(overlayPages))
         IN MergePages(r.heap, r.pages, Tail(overlayPages))

\* mergeBlueprints(base, overlay): the store after the call and the blueprint
\* returned
MergeBlueprints(h, base, overlay) ==
    LET cloned == CloneBlueprint(h, base)
        merged == SpreadProp(SpreadProp(SpreadProp(MergeVersion(cloned.value, overlay),
                                                   overlay, "metadata"),
                                        overlay, "globalStyles"),
                             overlay, "stylePresets")
    IN IF Has(overlay, "pages")
       THEN LET r == MergePages(cloned.heap, merged.pages, overlay.pages)
            IN [heap |-> r.heap, value |-> [merged EXCEPT !.pages = r.pages]]
       ELSE [heap |-> cloned.heap, value |-> merged]

----------------------------------------------------------------------------
(* Inputs *)

SegPool == {<<"a">>, <<"b">>, <<"a", "[", "0", "]">>, <<"a", "[", "1", "]">>,
            <<"a", "[", "*", "]">>}

SegSeqs == UNION {[1..n -> SegPool] : n \in 0..MaxSegs}

RECURSIVE Join(_)
Join(ss) == IF ss = <<>> THEN <<>> ELSE <<".">> \o Head(ss) \o Join(Tail(ss))

RootedPaths == {<<"$">> \o Join(ss) : ss \in SegSeqs}

\* "$.", "$a", "$..b"; and without the root marker: "", "a.b", ".a"
OddPaths == {<<"$", ".">>, <<"$", "a">>, <<"$", ".", ".", "b">>}
UnrootedPaths == {<<>>, <<"a", ".", "b">>, <<".", "a">>}

PathInputs == RootedPaths \cup OddPaths \cup UnrootedPaths

SetValues == {Num(7), Bool(FALSE)}

\* {}
RecEmpty == [heap |-> <<Obj(NoProps)>>, data |-> Ref(1)]
\* {a: {b: 1}, b: 0}
RecNested == [heap |-> <<Obj((<<"a">> :> Ref(2)) @@ (<<"b">> :> Num(0))),
                         Obj(<<"b">> :> Num(1))>>, data |-> Ref(1)]
\* {a: [{b: 5}, {b: 4}], b: "x"}
RecForms == [heap |-> <<Obj((<<"a">> :> Ref(2)) @@ (<<"b">> :> Str(<<"x">>))),
                        Arr(<<Ref(3), Ref(4)>>),
                        Obj(<<"b">> :> Num(5)), Obj(<<"b">> :> Num(4))>>, data |-> Ref(1)]
\* {a: 0, b: false}
RecFalsy == [heap |-> <<Obj((<<"a">> :> Num(0)) @@ (<<"b">> :> Bool(FALSE)))>>, data |-> Ref(1)]
\* {a: "", b: null}
RecBlank == [heap |-> <<Obj((<<"a">> :> Str(<<>>)) @@ (<<"b">> :> Null))>>, data |-> Ref(1)]
\* {a: 5, b: {a: [1]}}
RecMixed == [heap |-> <<Obj((<<"a">> :> Num(5)) @@ (<<"b">> :> Ref(2))),
                        Obj(<<"a">> :> Ref(3)), Arr(<<Num(1)>>)>>, data |-> Ref(1)]
\* {a: {"0": {b: 1}}, b: true}
RecKeyed == [heap |-> <<Obj((<<"a">> :> Ref(2)) @@ (<<"b">> :> Bool(TRUE))),
                        Obj(<<"0">> :> Ref(3)), Obj(<<"b">> :> Num(1))>>, data |-> Ref(1)]
\* [{a: 1}, 0]
RecArray == [heap |-> <<Arr(<<Ref(2), Num(0)>>), Obj(<<"a">> :> Num(1))>>, data |-> Ref(1)]
\* null, 5
RecNull   == [heap |-> <<>>, data |-> Null]
RecScalar == [heap |-> <<>>, data |-> Num(5)]

\* {a: [<hole>, {b: 1}], "a[0]": 7}: the shape setJSONPath itself leaves behind
RecSparse == [heap |-> <<Obj((<<"a">> :> Ref(2)) @@ (<<"a", "[", "0", "]">> :> Num(7))),
                         [isArr |-> TRUE, props |-> (<<"1">> :> Ref(3))],
                         Obj(<<"b">> :> Num(1))>>, data |-> Ref(1)]

InitRecords == {RecEmpty, RecNested, RecForms, RecFalsy, RecBlank, RecMixed, RecKeyed,
                RecSparse, RecArray, RecNull, RecScalar}

\* a blueprint of two pages; field f1 is bound to $.a, field f2 to $.b.a[0]
Field(id, path) == [id |-> id, dataBinding |-> [path |-> path]]
TwoPages == [pages |-> <<[fields |-> <<Field(<<"f", "1">>, <<"$", ".", "a">>)>>],
                         [fields |-> <<Field(<<"f", "2">>,
                                             <<"$", ".", "b", ".", "a", "[", "0", "]">>)>>]>>]

Cond(source, op, value) == [source |-> source, operator |-> op, value |-> value]
CondPool == {
    Cond(<<"$", ".", "a">>, "eq", Num(5)),
    Cond(<<"$", ".", "b">>, "is_empty", Str(<<>>)),
    Cond(<<"f", "2">>, "gte", Str(<<"1">>)),
    Cond(<<"f", "9">>, "is_empty", Str(<<>>)),
    Cond(<<"$", ".", "b">>, "in", List(<<Str(<<"x">>), Bool(FALSE)>>)),
    Cond(<<"$", ".", "b">>, "matches_pattern", Str(<<"^", "x", "$">>)),
    Cond(<<"f", "1">>, "not_in", List(<<Num(0), Str(<<>>)>>)),
    Cond(<<"$", ".", "a">>, "not_contains", Str(<<"z">>)) }

CondLists == UNION {[1..n -> CondPool] : n \in 0..MaxConds}
LogicalOperators == {"and", "or", "not", "xor", "nand"}
LogicRecords == {RecForms, RecFalsy, RecMixed}
NoLogic == [conditions |-> <<>>, operator |-> "and", action |-> "show"]

\* single conditions: every comparison operator on paths and field identifiers
CondSources == {<<"$", ".", "a">>, <<"$", ".", "b">>, <<"f", "1">>, <<"f", "2">>, <<"f", "9">>}
ComparisonOperators == {"eq", "neq", "gt", "gte", "lt", "lte", "contains", "not_contains",
                        "starts_with", "ends_with", "is_empty", "is_not_empty", "in",
                        "not_in", "matches_pattern"}
CondValues == {Num(5), Num(1), Str(<<"x">>), Str(<<>>), Bool(FALSE),
               List(<<Num(1), Str(<<"x">>)>>)}
CondRecords == LogicRecords \cup {RecBlank, RecEmpty}

\* validation rules: every kind with a case in validateRule, with and without
\* their optional properties, and one kind without a case
Rule(type) == [type |-> type, message |-> "invalid"]
RulePool == {
    Rule("required"),
    Rule("required") @@ [severity |-> "warning"],
    Rule("min_length") @@ [length |-> 2],
    Rule("min_length"),
    Rule("max_length") @@ [length |-> 1],
    Rule("max_length"),
    Rule("pattern") @@ [pattern |-> <<"^", "x">>],
    Rule("pattern"),
    Rule("range") @@ [min |-> 1, max |-> 3],
    Rule("range") @@ [min |-> 1],
    Rule("range") @@ [max |-> 3, severity |-> "info"],
    Rule("range") @@ [min |-> 3, max |-> 1],
    Rule("range"),
    Rule("luhn") }

RuleLists == UNION {[1..n -> RulePool] : n \in 0..MaxRules}

\* the store the values handed to validateField live in: [] and {}
ValueHeap == <<Arr(<<>>), Obj(NoProps)>>
FieldValues == {Undef, Null, Str(<<>>), Str(<<"x">>), Str(<<"x", "y">>), Str(<<"y", "x", "y">>),
                Str(<<"2">>), Str(<<"5">>), Num(0), Num(1), Num(2), Num(3), Num(5),
                Bool(FALSE), Bool(TRUE), Ref(1), Ref(2)}

\* fields for validateForm: bound to $.a or to the path $.c no record holds,
\* with or without rules, conditional logic, a fallback or a default value
LogicOn(action, cond) == [conditions |-> <<cond>>, operator |-> "and", action |-> action]
FirstFieldEmpty == Cond(<<"f", "1">>, "is_empty", Str(<<>>))
StatusIsX == Cond(<<"$", ".", "b">>, "eq", Str(<<"x">>))
FormLogics == {LogicOn(a, c) : a \in {"show", "hide", "require"}, c \in {FirstFieldEmpty, StatusIsX}}

OnlyRequired == <<Rule("required")>>
FormRuleLists == {
    OnlyRequired,
    <<Rule("min_length") @@ [length |-> 1, severity |-> "warning"], Rule("required"),
      Rule("pattern") @@ [pattern |-> <<"x">>, severity |-> "info"]>>,
    <<Rule("range") @@ [min |-> 1, max |-> 3, severity |-> "error"],
      Rule("required") @@ [severity |-> "warning"]>> }

Bound(path) == [dataBinding |-> [path |-> path]]
WithRules == {t @@ [validations |-> rs] : t \in {Bound(<<"$", ".", "a">>)}, rs \in FormRuleLists}
              \cup {Bound(<<"$", ".", "a">>)}
Unbound == { Bound(<<"$", ".", "c">>) @@ [validations |-> OnlyRequired],
             [dataBinding |-> [path |-> <<"$", ".", "c">>, fallback |-> Str(<<"z">>)],
              validations |-> OnlyRequired],
             Bound(<<"$", ".", "c">>) @@ [validations |-> OnlyRequired, defaultValue |-> Str(<<"z">>)] }
FieldTemplates ==
    WithRules
    \cup {t @@ [conditionalLogic |-> lg] :
             t \in {Bound(<<"$", ".", "a">>), Bound(<<"$", ".", "a">>) @@ [validations |-> OnlyRequired]},
             lg \in FormLogics}
    \cup Unbound
    \cup {t @@ [conditionalLogic |-> lg] :
             t \in Unbound, lg \in {LogicOn("show", StatusIsX), LogicOn("hide", FirstFieldEmpty)}}

TemplateLists == UNION {[1..n -> FieldTemplates] : n \in 0..MaxFields}

\* field identifiers are unique within a blueprint: the i-th field is f<i>
FieldId(i) == <<"f">> \o ToStr(i)

\* the first field on the first page, the others on the second
Blueprint(ts) ==
    LET fs == [i \in 1..Len(ts) |-> [id |-> FieldId(i)] @@ ts[i]]
    IN [pages |-> <<[fields |-> SubSeq(fs, 1, IF fs = <<>> THEN 0 ELSE 1)], [fields |-> SubSeq(fs, 2, Len(fs))]>>]

FormRecords == {RecFalsy, RecBlank, RecForms, RecMixed}

\* data: Record<string, unknown>
IsRecord(h, d) == d.t = "ref" /\ ~h[d.id].isArr

----------------------------------------------------------------------------------------------------------------------------------------
(* The state machines *)

NoCall == [op |-> "none"]
NoArgs == [none |-> TRUE]
NoBlueprint == [pages |-> <<>>]

InitCommon ==
    /\ call = NoCall
    /\ before = heap
    /\ result = Return(Undef)
    /\ nsets = 0

\* the arguments of the operations a specification does not call
NoCondition == Cond(<<"$">>, "eq", Undef)
NoField == Field(<<"f", "1">>, <<"$", ".", "a">>)

\* styles: global styles with and without type defaults, one preset, fields
\* of two data types naming a defined preset, an undefined one, "" or none
TextDefaults == [fontSize |-> Num(11)]
GlobalStyleInputs == {
    NoStyle,
    [fontSize |-> Num(10)],
    [fontSize |-> Num(10), color |-> Str(<<"k">>), typeDefaults |-> [string |-> TextDefaults]],
    [typeDefaults |-> [string |-> TextDefaults, number |-> [color |-> Str(<<"r">>)]]] }
PresetInputs == {[bold |-> [fontSize |-> Num(13), fontWeight |-> Str(<<"b">>)]]}
StyleBlueprints ==
    {NoBlueprint}
    \cup {NoBlueprint @@ [stylePresets |-> ps] : ps \in PresetInputs}
    \cup {NoBlueprint @@ [globalStyles |-> gs] : gs \in GlobalStyleInputs}
    \cup {NoBlueprint @@ [globalStyles |-> gs, stylePresets |-> ps] :
             gs \in GlobalStyleInputs, ps \in PresetInputs}
FormattingInputs == {NoStyle, [fontSize |-> Num(12)], [color |-> Str(<<"g">>)]}
StyledFields ==
    LET typed   == {NoField @@ [dataType |-> t] : t \in {"string", "number"}}
        preset  == typed \cup {f @@ [stylePreset |-> n] : f \in typed, n \in {"bold", "thin", ""}}
    IN preset \cup {f @@ [formatting |-> fm] : f \in preset, fm \in FormattingInputs}

\* resolveJSONPath(path, data) on any value of data
InitResolve ==
    /\ logic = NoLogic
    /\ condition = NoCondition /\ field = NoField /\ fieldValue = Undef
    /\ \E r \in InitRecords : heap = r.heap /\ data = r.data
    /\ blueprint = NoBlueprint
    /\ args = NoArgs
    /\ InitCommon

Resolve ==
    \E path \in PathInputs :
        /\ call' = [op |-> "resolveJSONPath", path |-> path]
        /\ before' = heap
        /\ result' = ResolveJSONPath(path, heap, data)
        /\ UNCHANGED <<logic, heap, data, blueprint, nsets, condition, field, fieldValue, args>>

NextResolve == Resolve

SpecResolve == InitResolve /\ [][NextResolve]_vars

\* setJSONPath(path, data, value) on a record, called up to MaxSets times in a row
InitSet ==
    /\ logic = NoLogic
    /\ condition = NoCondition /\ field = NoField /\ fieldValue = Undef
    /\ \E r \in InitRecords : heap = r.heap /\ data = r.data /\ IsRecord(r.heap, r.data)
    /\ blueprint = NoBlueprint
    /\ args = NoArgs
    /\ InitCommon

Set ==
    \E path \in PathInputs, value \in SetValues :
        /\ nsets < MaxSets
        /\ LET r == SetJSONPath(path, heap, data, value)
           IN /\ heap' = r.heap
              /\ result' = r.outcome
        /\ call' = [op |-> "setJSONPath", path |-> path, value |-> value]
        /\ before' = heap
        /\ nsets' = nsets + 1
        /\ UNCHANGED <<logic, data, blueprint, condition, field, fieldValue, args>>

NextSet == Set

SpecSet == InitSet /\ [][NextSet]_vars

\* setJSONPath followed by reads: up to MaxSets calls on rooted paths without
\* wildcard, the record read anywhere afterwards
FrameSegSeqs == UNION {[1..n -> SegPool \ {<<"a", "[", "*", "]">>}] : n \in 0..MaxSegs}
FramePaths == {<<"$">> \o Join(ss) : ss \in FrameSegSeqs}
FrameRecords == {RecEmpty, RecNested, RecForms, RecFalsy, RecBlank, RecKeyed, RecSparse}

InitFrame ==
    /\ logic = NoLogic
    /\ condition = NoCondition /\ field = NoField /\ fieldValue = Undef
    /\ \E r \in FrameRecords : heap = r.heap /\ data = r.data
    /\ blueprint = NoBlueprint
    /\ args = NoArgs
    /\ InitCommon

SetOnPath ==
    \E path \in FramePaths :
        /\ nsets < MaxSets
        /\ LET r == SetJSONPath(path, heap, data, Num(7))
           IN /\ heap' = r.heap
              /\ result' = r.outcome
        /\ call' = [op |-> "setJSONPath", path |-> path, value |-> Num(7)]
        /\ before' = heap
        /\ nsets' = nsets + 1
        /\ UNCHANGED <<logic, data, blueprint, condition, field, fieldValue, args>>

NextFrame == SetOnPath

SpecFrame == InitFrame /\ [][NextFrame]_vars

\* getMergedFormatting(blueprint, field), once on each input drawn
InitFormat ==
    /\ logic = NoLogic
    /\ condition = NoCondition /\ fieldValue = Undef
    /\ field \in StyledFields
    /\ blueprint \in StyleBlueprints
    /\ heap = <<>> /\ data = Undef
    /\ args = NoArgs
    /\ InitCommon

Format ==
    /\ call = NoCall
    /\ call' = [op |-> "getMergedFormatting"]
    /\ before' = heap
    /\ LET r == GetMergedFormatting(blueprint, field)
       IN /\ blueprint' = r.blueprint
          /\ result' = Return(r.value)
    /\ UNCHANGED <<logic, heap, data, nsets, condition, field, fieldValue, args>>

NextFormat == Format

SpecFormat == InitFormat /\ [][NextFormat]_vars

\* formatCurrency(value, format, decimalPlaces, thousandsSeparator), once on
\* each input drawn; values in thousandths, from -1234.567 to 1234.567
CurrencyValues == {-1234567, -1000000, -1500, -1005, -499, -1, 0, 1, 499, 500, 999, 1000,
                   12345, 999999, 1234567}
CurrencyFormats == {"USD", "USD_NO_SYMBOL", "USD_WITH_CENTS", "USD_WHOLE", "EUR"}

InitCurrency ==
    /\ logic = NoLogic
    /\ condition = NoCondition /\ field = NoField /\ fieldValue = Undef
    /\ heap = <<>> /\ data = Undef
    /\ blueprint = NoBlueprint
    /\ \E v \in CurrencyValues, f \in CurrencyFormats, d \in 0..MaxDecimals, t \in BOOLEAN :
          args = [value |-> v, format |-> f, decimalPlaces |-> d, thousandsSeparator |-> t]
    /\ call = NoCall /\ before = heap /\ result = Return(Undef) /\ nsets = 0

Currency ==
    /\ call = NoCall
    /\ call' = [op |-> "formatCurrency"]
    /\ before' = heap
    /\ result' = Return(Str(FormatCurrency(args.value, args.format, args.decimalPlaces,
                                           args.thousandsSeparator)))
    /\ UNCHANGED <<logic, heap, data, blueprint, nsets, condition, field, fieldValue, args>>

NextCurrency == Currency

SpecCurrency == InitCurrency /\ [][NextCurrency]_vars

\* formatSSN(ssn, showSeparators, mask), once on each input drawn: strings of
\* nine digits with and without other characters, and of fewer and more digits
SSNInputs == {<<"1", "2", "3", "4", "5", "6", "7", "8", "9">>,
             <<"1", "2", "3", "-", "4", "5", "-", "6", "7", "8", "9">>,
             <<"1", "2", "3", " ", "4", "5", " ", "6", "7", "8", "9">>,
             <<"9", "8", "7", "6", "5", "4", "3", "2", "1">>,
             <<"1", "1", "1", "1", "1", "1", "1", "1", "1">>,
             <<"0", "0", "0", "-", "0", "0", "-", "0", "0", "0", "0">>,
             <<"a", "1", "2", "3", "4", "5", "6", "7", "8", "9">>,
             <<"1", "2", "-", "3", "4", "5", "-", "6", "7", "8", "9", " ">>,
             <<"1", "2", "3", "4", "5", "6", "7", "8">>,
             <<"1", "2", "3", "4", "5", "6", "7", "8", "9", "0">>,
             <<>>,
             <<"1", "2", "3", "-", "4", "5", "-", "6", "7", "8">>,
             <<"a", "b", "c">>,
             <<"1", "2", "3", "-", "4", "5", "-", "6", "7", "8", "9", "0">>,
             <<"-", "-", "-">>}

InitSSN ==
    /\ logic = NoLogic
    /\ condition = NoCondition /\ field = NoField /\ fieldValue = Undef
    /\ heap = <<>> /\ data = Undef
    /\ blueprint = NoBlueprint
    /\ \E t \in SSNInputs, sep \in BOOLEAN, m \in BOOLEAN :
          args = [ssn |-> t, showSeparators |-> sep, mask |-> m]
    /\ call = NoCall /\ before = heap /\ result = Return(Undef) /\ nsets = 0

SSN ==
    /\ call = NoCall
    /\ call' = [op |-> "formatSSN"]
    /\ before' = heap
    /\ result' = Return(Str(FormatSSN(args.ssn, args.showSeparators, args.mask)))
    /\ UNCHANGED <<logic, heap, data, blueprint, nsets, condition, field, fieldValue, args>>

NextSSN == SSN

SpecSSN == InitSSN /\ [][NextSSN]_vars

\* mergeBlueprints(base, overlay) once on each input drawn, then up to
\* MaxSets changes made in place to the blueprint it returned
BaseField(id) == [id |-> id, dataType |-> "string", label |-> "base"]
OverlayField(id) == [id |-> id, label |-> "overlay"]
Page(n, fields) == [pageNumber |-> n, fields |-> fields]
BasePageLists ==
    {<<Page(1, <<BaseField("f1")>>)>>,
     <<Page(1, <<BaseField("f1"), BaseField("f2")>>)>>,
     <<Page(1, <<BaseField("f1")>>), Page(2, <<BaseField("f2")>>)>>}
OverlayPageLists ==
    {<<>>,
     <<Page(1, <<OverlayField("f1")>>)>>,
     <<Page(1, <<OverlayField("f3")>>)>>,
     <<Page(2, <<OverlayField("f2")>>)>>,
     <<Page(2, <<OverlayField("f1")>>)>>,
     <<Page(3, <<OverlayField("f3")>>)>>,
     <<Page(3, <<OverlayField("f3")>>), Page(3, <<OverlayField("f4")>>)>>,
     <<Page(1, <<OverlayField("f2"), OverlayField("f3")>>), Page(3, <<OverlayField("f4")>>)>>}
BaseBlueprints ==
    {[id |-> "base", version |-> "1.0", metadata |-> [formName |-> "base", taxYear |-> "2024"],
      pages |-> ps] @@ gs :
        ps \in BasePageLists, gs \in {NoStyle, [globalStyles |-> [fontSize |-> "10"]]}}
OverlaySupplies ==
    {[version |-> "2.0"], [version |-> ""], [id |-> "overlay"],
     [metadata |-> [formName |-> "overlay"]], [globalStyles |-> [color |-> "red"]],
     [stylePresets |-> [header |-> [fontWeight |-> "bold"]]], [fieldGroups |-> <<"income">>]}
OverlayBlueprints ==
    {NoStyle} \cup OverlaySupplies
    \cup {[pages |-> ps] : ps \in OverlayPageLists}
    \cup {[pages |-> ps] @@ o : ps \in OverlayPageLists \ {<<>>}, o \in {[version |-> "2.0"]}}

InitMerge ==
    /\ logic = NoLogic
    /\ condition = NoCondition /\ field = NoField /\ fieldValue = Undef
    /\ data = Undef
    /\ blueprint = NoBlueprint
    /\ \E b \in BaseBlueprints, o \in OverlayBlueprints :
          LET base == Parse(<<>>, b)
              overlay == Parse(base.heap, o)
          IN /\ heap = overlay.heap
             /\ args = [base |-> base.value, overlay |-> overlay.value]
    /\ call = NoCall /\ before = heap /\ result = Return(Undef) /\ nsets = 0

Merge ==
    /\ call = NoCall
    /\ call' = [op |-> "mergeBlueprints"]
    /\ before' = heap
    /\ LET r == MergeBlueprints(heap, args.base, args.overlay)
       IN heap' = r.heap /\ result' = Return(r.value)
    /\ UNCHANGED <<logic, data, blueprint, nsets, condition, field, fieldValue, args>>

\* merged.pages[p].fields[i].formatting = {...}, on the blueprint returned
ReplaceFormatting ==
    /\ call # NoCall /\ nsets < MaxSets
    /\ \E p \in 1..Len(result.value.pages) :
         \E i \in 1..Len(heap[result.value.pages[p]].fields) :
            heap' = [heap EXCEPT ![heap[result.value.pages[p]].fields[i]].props =
                                     SetProp(@, "formatting", "changed")]
    /\ nsets' = nsets + 1
    /\ UNCHANGED <<logic, data, blueprint, call, before, result, condition, field, fieldValue, args>>

\* merged.pages[p].fields.push(field), on the blueprint returned
PushField ==
    /\ call # NoCall /\ nsets < MaxSets
    /\ \E p \in 1..Len(result.value.pages) :
            heap' = Append([heap EXCEPT ![result.value.pages[p]].fields = Append(@, Len(heap) + 1)],
                           FieldObject([id |-> "pushed"]))
    /\ nsets' = nsets + 1
    /\ UNCHANGED <<logic, data, blueprint, call, before, result, condition, field, fieldValue, args>>

NextMerge == Merge \/ ReplaceFormatting \/ PushField

SpecMerge == InitMerge /\ [][NextMerge]_vars

\* the read-only operations, up to MaxCalls calls in a row on one record and
\* one blueprint; args holds the result of the first call made with each
\* operation and arguments
ReadFieldA == Bound(<<"$", ".", "a">>)
                 @@ [validations |-> OnlyRequired, dataType |-> "string", stylePreset |-> "bold",
                     conditionalLogic |-> LogicOn("show", StatusIsX)]
ReadFieldB == Bound(<<"$", ".", "c">>)
                 @@ [validations |-> <<Rule("range") @@ [min |-> 1, max |-> 3],
                                       Rule("required") @@ [severity |-> "warning"]>>,
                     dataType |-> "number", formatting |-> [color |-> Str(<<"g">>)]]
ReadFieldC == Bound(<<"$", ".", "a">>)
                 @@ [dataType |-> "string", conditionalLogic |-> LogicOn("hide", FirstFieldEmpty)]
ReadFieldLists == {<<ReadFieldA, ReadFieldB>>, <<ReadFieldC, ReadFieldA>>, <<ReadFieldB, ReadFieldC>>}
ReadBlueprints ==
    {Blueprint(ts) @@ [globalStyles |-> gs, stylePresets |-> ps] :
        ts \in ReadFieldLists, gs \in GlobalStyleInputs \ {NoStyle}, ps \in PresetInputs}
ReadRecords == {RecBlank, RecForms}
ReadCallPaths == << <<"$", ".", "a">>, <<"$", ".", "b">>, <<"$", ".", "c">>, <<"$">> >>
ReadValues == <<Undef, Str(<<"x">>), Num(2)>>

NoResults == [c \in {} |-> Undef]
Remember(results, c, r) == IF c \in DOMAIN results THEN results ELSE (c :> r) @@ results
ReadCall(op, arg, arg2) == [op |-> op, arg |-> arg, arg2 |-> arg2]

InitReads ==
    /\ logic = NoLogic
    /\ condition = NoCondition /\ field = NoField /\ fieldValue = Undef
    /\ blueprint \in ReadBlueprints
    /\ \E r \in ReadRecords : heap = r.heap /\ data = r.data
    /\ args = NoResults
    /\ InitCommon

\* what every call does besides computing its result
Called(c, r) ==
    /\ nsets < MaxCalls
    /\ call' = c
    /\ result' = r
    /\ args' = Remember(args, c, r)
    /\ nsets' = nsets + 1
    /\ before' = heap
    /\ UNCHANGED <<logic, heap, data, condition, field, fieldValue>>

ReadResolve ==
    \E i \in 1..Len(ReadCallPaths) :
        /\ Called(ReadCall("resolveJSONPath", i, 0), ResolveJSONPath(ReadCallPaths[i], heap, data))
        /\ UNCHANGED blueprint

ReadLogic ==
    \E i \in 1..Len(FieldsOf(blueprint)) :
        /\ Has(FieldsOf(blueprint)[i], "conditionalLogic")
        /\ Called(ReadCall("evaluateConditionalLogic", i, 0),
                  EvaluateConditionalLogic(FieldsOf(blueprint)[i].conditionalLogic, heap, data,
                                           blueprint))
        /\ UNCHANGED blueprint

ReadField ==
    \E i \in 1..Len(FieldsOf(blueprint)), j \in 1..Len(ReadValues) :
        /\ Called(ReadCall("validateField", i, j),
                  Return(ValidateField(FieldsOf(blueprint)[i], ReadValues[j], heap)))
        /\ UNCHANGED blueprint

ReadForm ==
    /\ Called(ReadCall("validateForm", 0, 0), ValidateForm(blueprint, heap, data))
    /\ UNCHANGED blueprint

ReadFormat ==
    \E i \in 1..Len(FieldsOf(blueprint)) :
        /\ Called(ReadCall("getMergedFormatting", i, 0),
                  Return(GetMergedFormatting(blueprint, FieldsOf(blueprint)[i]).value))
        /\ blueprint' = GetMergedFormatting(blueprint, FieldsOf(blueprint)[i]).blueprint

NextReads == ReadResolve \/ ReadLogic \/ ReadField \/ ReadForm \/ ReadFormat

SpecReads == InitReads /\ [][NextReads]_vars

\* evaluateConditionalLogic(logic, data, blueprint), once on each input drawn
InitLogic ==
    /\ \E cs \in CondLists, op \in LogicalOperators :
          logic = [conditions |-> cs, operator |-> op, action |-> "show"]
    /\ \E r \in LogicRecords : heap = r.heap /\ data = r.data
    /\ blueprint = TwoPages
    /\ condition = NoCondition /\ field = NoField /\ fieldValue = Undef
    /\ args = NoArgs
    /\ InitCommon

Evaluate ==
    /\ call = NoCall
    /\ call' = [op |-> "evaluateConditionalLogic"]
    /\ before' = heap
    /\ result' = EvaluateConditionalLogic(logic, heap, data, blueprint)
    /\ UNCHANGED <<logic, heap, data, blueprint, nsets, condition, field, fieldValue, args>>

NextLogic == Evaluate

SpecLogic == InitLogic /\ [][NextLogic]_vars

\* evaluateCondition(condition, data, blueprint), once on each input drawn
InitCond ==
    /\ logic = NoLogic
    /\ \E src \in CondSources, op \in ComparisonOperators, v \in CondValues :
          condition = Cond(src, op, v)
    /\ \E r \in CondRecords : heap = r.heap /\ data = r.data
    /\ blueprint = TwoPages
    /\ field = NoField /\ fieldValue = Undef
    /\ args = NoArgs
    /\ InitCommon

EvaluateOne ==
    /\ call = NoCall
    /\ call' = [op |-> "evaluateCondition"]
    /\ before' = heap
    /\ result' = EvaluateCondition(condition, heap, data, blueprint)
    /\ UNCHANGED <<logic, heap, data, blueprint, nsets, condition, field, fieldValue, args>>

NextCond == EvaluateOne

SpecCond == InitCond /\ [][NextCond]_vars

\* validateField(field, value), once on each input drawn
InitField ==
    /\ logic = NoLogic
    /\ condition = NoCondition
    /\ \/ field = NoField
       \/ \E rs \in RuleLists : field = NoField @@ [validations |-> rs]
    /\ fieldValue \in FieldValues
    /\ heap = ValueHeap /\ data = Ref(2)
    /\ blueprint = NoBlueprint
    /\ args = NoArgs
    /\ InitCommon

ValidateOne ==
    /\ call = NoCall
    /\ call' = [op |-> "validateField"]
    /\ before' = heap
    /\ result' = Return(ValidateField(field, fieldValue, heap))
    /\ UNCHANGED <<logic, heap, data, blueprint, nsets, condition, field, fieldValue, args>>

NextField == ValidateOne

SpecField == InitField /\ [][NextField]_vars

\* validateForm(blueprint, data), once on each input drawn
InitForm ==
    /\ logic = NoLogic
    /\ condition = NoCondition /\ field = NoField /\ fieldValue = Undef
    /\ \E ts \in TemplateLists : blueprint = Blueprint(ts)
    /\ \E r \in FormRecords : heap = r.heap /\ data = r.data
    /\ args = NoArgs
    /\ InitCommon

ValidateAll ==
    /\ call = NoCall
    /\ call' = [op |-> "validateForm"]
    /\ before' = heap
    /\ result' = ValidateForm(blueprint, heap, data)
    /\ UNCHANGED <<logic, heap, data, blueprint, nsets, condition, field, fieldValue, args>>

NextForm == ValidateAll

SpecForm == InitForm /\ [][NextForm]_vars

----------------------------------------------------------------------------
(* Vocabulary of the properties: the path grammar of the specification     *)
(*   path := "$" segment*,  segment := "." (plainName | indexedName)       *)

IsResolveCall == call.op = "resolveJSONPath"
IsSetCall     == call.op = "setJSONPath"

AllWord(s)   == s # <<>> /\ \A i \in 1..Len(s) : WordChar(s[i])
AllDigits(s) == s # <<>> /\ \A i \in 1..Len(s) : s[i] \in Digits

\* the position of "[" in a segment, 0 when it has none
OpenAt(seg) == IF \E i \in 1..Len(seg) : seg[i] = "["
               THEN CHOOSE i \in 1..Len(seg) : seg[i] = "[" /\ \A j \in 1..(i - 1) : seg[j] # "["
               ELSE 0
SegName(seg)    == SubSeq(seg, 1, OpenAt(seg) - 1)
SegBracket(seg) == SubSeq(seg, OpenAt(seg) + 1, Len(seg) - 1)

IsPlainSeg(seg)   == AllWord(seg)
IsBracketSeg(seg) == OpenAt(seg) > 1 /\ seg[Len(seg)] = "]" /\ AllWord(SegName(seg))
IsIndexedSeg(seg) == IsBracketSeg(seg) /\ AllDigits(SegBracket(seg))
IsWildSeg(seg)    == IsBracketSeg(seg) /\ SegBracket(seg) = <<"*">>

\* the segments of a path written to the grammar; <<>> for the bare root
GrammarSegs(path) == Tail(Split(Slice1(path), <<>>, <<>>))
IsGrammarPath(path) ==
    /\ StartsWithRoot(path)
    /\ Head(Split(Slice1(path), <<>>, <<>>)) = <<>>
    /\ \A i \in 1..Len(GrammarSegs(path)) :
          LET seg == GrammarSegs(path)[i]
          IN IsPlainSeg(seg) \/ IsIndexedSeg(seg) \/ IsWildSeg(seg)
IsNonWildcardPath(path) ==
    /\ IsGrammarPath(path)
    /\ \A i \in 1..Len(GrammarSegs(path)) : ~IsWildSeg(GrammarSegs(path)[i])

\* the value a rooted path without wildcard leads to in store h
ValueAt(h, d, segs) == ResolveWalk(h, segs, 1, d).value
NoWildIn(segs) == \A i \in 1..Len(segs) : ~IsWildSeg(segs[i])
Front(segs) == SubSeq(segs, 1, Len(segs) - 1)
Last(segs)  == segs[Len(segs)]

\* the property keys a path goes through when it is written: name[i] is the
\* key name followed by the key i
RECURSIVE KeysOf(_)
KeysOf(segs) ==
    IF segs = <<>> THEN <<>>
    ELSE (IF IsIndexedSeg(Head(segs))
          THEN <<SegName(Head(segs)), ToStr(ParseInt(SegBracket(Head(segs))))>>
          ELSE <<Head(segs)>>) \o KeysOf(Tail(segs))

\* the value found by following property keys from d
RECURSIVE RawAt(_, _, _)
RawAt(h, d, keys) ==
    IF keys = <<>> THEN d
    ELSE IF d.t \in {"undefined", "null"} THEN Undef
    ELSE RawAt(h, Get(h, d, Head(keys)), Tail(keys))

----------------------------------------------------------------------------
(* Properties of the path engine *)

\* C1: after setJSONPath(P, R, V) returned for a grammar path P without
\* wildcard and with at least one segment, resolveJSONPath(P, R) returns V.
C1_RoundTrip ==
    (IsSetCall /\ result.kind = "return" /\ IsNonWildcardPath(call.path)
        /\ GrammarSegs(call.path) # <<>>)
    => ResolveJSONPath(call.path, heap, data) = Return(call.value)

\* C2: resolving a path whose last segment is name[*], name being an
\* array-valued property of the value the preceding segments lead to, returns
\* that very array and leaves the store as it was.
C2_Case ==
    /\ IsResolveCall
    /\ IsGrammarPath(call.path)
    /\ GrammarSegs(call.path) # <<>>
    /\ IsWildSeg(Last(GrammarSegs(call.path)))
    /\ NoWildIn(Front(GrammarSegs(call.path)))
    /\ LET parent == ValueAt(heap, data, Front(GrammarSegs(call.path)))
       IN /\ parent.t = "ref"
          /\ IsArray(heap, Get(heap, parent, SegName(Last(GrammarSegs(call.path)))))
C2_WildcardReturnsArray ==
    C2_Case =>
        LET parent == ValueAt(heap, data, Front(GrammarSegs(call.path)))
            arr    == Get(heap, parent, SegName(Last(GrammarSegs(call.path))))
        IN /\ result = Return(arr)
           /\ heap = before
           /\ \A k \in DOMAIN before[arr.id].props :
                 Get(heap, result.value, k) = before[arr.id].props[k]
C2_Witness == C2_Case /\ result.kind = "return" /\ ArrLength(heap[result.value.id]) = 2

\* C3: resolving a path that ends name[*].prop over an array-valued name
\* returns the list of the elements' prop values, one per element in order.
C3_Case ==
    /\ IsResolveCall
    /\ IsGrammarPath(call.path)
    /\ Len(GrammarSegs(call.path)) >= 2
    /\ IsPlainSeg(Last(GrammarSegs(call.path)))
    /\ IsWildSeg(Last(Front(GrammarSegs(call.path))))
    /\ NoWildIn(Front(Front(GrammarSegs(call.path))))
    /\ LET parent == ValueAt(heap, data, Front(Front(GrammarSegs(call.path))))
       IN /\ parent.t = "ref"
          /\ IsArray(heap, Get(heap, parent, SegName(Last(Front(GrammarSegs(call.path))))))
          /\ LET arr == Get(heap, parent, SegName(Last(Front(GrammarSegs(call.path)))))
             IN /\ ArrLength(heap[arr.id]) > 0
                /\ \A i \in 0..(ArrLength(heap[arr.id]) - 1) : Get(heap, arr, ToStr(i)).t = "ref"
C3_WildcardProjects ==
    C3_Case =>
        LET segs   == GrammarSegs(call.path)
            parent == ValueAt(heap, data, Front(Front(segs)))
            arr    == Get(heap, parent, SegName(Last(Front(segs))))
            n      == ArrLength(heap[arr.id])
        IN /\ result.kind = "return"
           /\ IsArray(heap, result.value)
           /\ ArrLength(heap[result.value.id]) = n
           /\ \A i \in 0..(n - 1) :
                 Get(heap, result.value, ToStr(i)) = RawAt(heap, arr, <<ToStr(i), Last(segs)>>)

\* C4: resolveJSONPath throws exactly when the path does not begin with $.
C4_ThrowsIffUnrooted ==
    IsResolveCall => (result.kind = "throw" <=> ~StartsWithRoot(call.path))
C4_Witness ==
    /\ IsResolveCall /\ StartsWithRoot(call.path) /\ Segments(call.path) # <<>>
    /\ data = Null /\ result = Return(Undef)

\* C5: resolveJSONPath returns undefined when, at some segment, the current
\* value is null, absent or not an object, or the named property is missing,
\* or the property of an indexed segment is not an array, or the index is
\* outside the array.
C5_StuckAt(segs, k) ==
    LET cur == ValueAt(heap, data, SubSeq(segs, 1, k - 1))
        seg == segs[k]
    IN \/ cur.t \in {"undefined", "null"}
       \/ TypeOf(cur) # "object"
       \/ IsPlainSeg(seg) /\ seg \notin DOMAIN heap[cur.id].props
       \/ IsBracketSeg(seg) /\ ~IsArray(heap, Get(heap, cur, SegName(seg)))
       \/ /\ IsIndexedSeg(seg)
          /\ IsArray(heap, Get(heap, cur, SegName(seg)))
          /\ ParseInt(SegBracket(seg)) >= ArrLength(heap[Get(heap, cur, SegName(seg)).id])
C5_Case ==
    /\ IsResolveCall
    /\ IsGrammarPath(call.path)
    /\ \E k \in 1..Len(GrammarSegs(call.path)) :
          /\ NoWildIn(SubSeq(GrammarSegs(call.path), 1, k - 1))
          /\ C5_StuckAt(GrammarSegs(call.path), k)
C6_KeepsIntermediates ==
    (IsSetCall /\ IsNonWildcardPath(call.path) /\ GrammarSegs(call.path) # <<>>) =>
        LET segs == GrammarSegs(call.path)
            ik   == KeysOf(Front(segs))
            keys == Append(ik, Last(segs))
        IN \A k \in 1..Len(ik) :
              LET old == RawAt(before, data, SubSeq(ik, 1, k))
              IN old \notin {Undef, Null} =>
                    /\ RawAt(heap, data, SubSeq(ik, 1, k)) = old
                    /\ old.t = "ref" =>
                          \A key \in DOMAIN before[old.id].props :
                              key # keys[k + 1] =>
                                  Get(heap, old, key) = before[old.id].props[key]

\* C7: when setJSONPath returns, it returns the record it was given, the value
\* is assigned in that record, every container that was on the path is still
\* the same object, and every object created is a container newly put on the path.
C7_SameObject ==
    (IsSetCall /\ result.kind = "return") =>
        LET segs == Segments(call.path)
            ik   == KeysOf(Front(segs))
        IN /\ result.value = data
           /\ RawAt(heap, data, Append(ik, LastSegment(segs))) = call.value
           /\ \A k \in 1..Len(ik) :
                 LET old == RawAt(before, data, SubSeq(ik, 1, k))
                 IN old.t = "ref" => RawAt(heap, data, SubSeq(ik, 1, k)) = old
           /\ \A j \in (Len(before) + 1)..Len(heap) :
                 \E k \in 1..Len(ik) :
                     /\ RawAt(heap, data, SubSeq(ik, 1, k)) = Ref(j)
                     /\ Falsy(RawAt(before, data, SubSeq(ik, 1, k)))
C7_Witness ==
    /\ IsSetCall /\ result.kind = "return" /\ result.value = data
    /\ Len(Segments(call.path)) = 2
    /\ before[data.id].props # NoProps
    /\ Len(heap) = Len(before)

\* C8: setJSONPath on a path that does not begin with $ throws and leaves the
\* record as it was.
C8_UnrootedSetThrows ==
    (IsSetCall /\ ~StartsWithRoot(call.path)) => (result.kind = "throw" /\ heap = before)
C8_Witness ==
    /\ IsSetCall /\ ~StartsWithRoot(call.path) /\ Segments(call.path) # <<>>
    /\ result = Throw("Error") /\ heap = before /\ heap[data.id].props # NoProps

----------------------------------------------------------------------------
(* Properties of the condition evaluator *)

IsLogicCall == call.op = "evaluateConditionalLogic"

\* the conditions of the evaluated logic that evaluate true
TrueConds == {i \in 1..Len(logic.conditions) :
                EvaluateCondition(logic.conditions[i], heap, data, blueprint) = Return(Bool(TRUE))}

\* C9: on a non-empty list, AND is true iff every condition is true, OR iff
\* at least one is, XOR iff exactly one is.
C9_Case == IsLogicCall /\ logic.conditions # <<>> /\ logic.operator \in {"and", "or", "xor"}
C9_AndOrXor ==
    C9_Case =>
        /\ result.kind = "return"
        /\ result.value.t = "boolean"
        /\ logic.operator = "and" => (result.value.b <=> TrueConds = 1..Len(logic.conditions))
        /\ logic.operator = "or"  => (result.value.b <=> TrueConds # {})
        /\ logic.operator = "xor" => (result.value.b <=> Cardinality(TrueConds) = 1)
C9_Witness ==
    /\ C9_Case /\ logic.operator = "xor" /\ Len(logic.conditions) = 3
    /\ Cardinality(TrueConds) = 3 /\ result = Return(Bool(FALSE))

\* the lists obtained from cs by changing, adding or removing conditions
\* after the first
Variants(cs) ==
    {<<cs[1]>>}
    \cup {Append(cs, c) : c \in CondPool}
    \cup {[cs EXCEPT ![i] = c] : i \in 2..Len(cs), c \in CondPool}
    \cup {SubSeq(cs, 1, n) : n \in 1..Len(cs)}

\* C10: with NOT the result is the negation of the first condition's result,
\* whatever the conditions after the first are.
C10_Case == IsLogicCall /\ logic.conditions # <<>> /\ logic.operator = "not"
C10_NotFirstOnly ==
    C10_Case =>
        /\ result = Return(Bool(1 \notin TrueConds))
        /\ \A cs \in Variants(logic.conditions) :
              EvaluateConditionalLogic([logic EXCEPT !.conditions = cs], heap, data, blueprint)
                  = result
C10_Witness ==
    /\ C10_Case /\ Len(logic.conditions) >= 2
    /\ 1 \notin TrueConds /\ 2 \in TrueConds /\ result = Return(Bool(TRUE))

IsCondCall == call.op = "evaluateCondition"

\* the fields of the blueprint, on any page, that carry the identifier id
AllFields ==
    UNION {{blueprint.pages[p].fields[i] : i \in 1..Len(blueprint.pages[p].fields)} :
              p \in 1..Len(blueprint.pages)}
FieldsNamed(id) == {f \in AllFields : f.id = id}

\* the outcome of comparing a resolved source with the condition's value
Compared(sv) ==
    IF sv.kind = "throw" THEN sv
    ELSE Return(Bool(Compare(condition.operator, sv.value, condition.value, heap)))

\* C11: a source that begins with $ is resolved as a path against the record;
\* any other source names a field, and the condition evaluates as if its
\* source were that field's binding path, the field being looked for on every
\* page; when no field carries the identifier the source is absent (is_empty
\* true, is_not_empty false, eq false) and nothing is raised.
C11_Case == IsCondCall /\ (condition.source = <<>> \/ Head(condition.source) # "$")
C11_SourceResolution ==
    IsCondCall =>
        IF ~C11_Case
        THEN result = Compared(ResolveJSONPath(condition.source, heap, data))
        ELSE IF FieldsNamed(condition.source) = {}
        THEN /\ result = Compared(Return(Undef))
             /\ condition.operator = "is_empty" => result = Return(Bool(TRUE))
             /\ condition.operator \in {"is_not_empty", "eq"} => result = Return(Bool(FALSE))
        ELSE \A f \in FieldsNamed(condition.source) :
                result = Compared(ResolveJSONPath(f.dataBinding.path, heap, data))
C11_Witness ==
    /\ C11_Case /\ condition.operator = "is_not_empty"
    /\ \E f \in FieldsNamed(condition.source) : f \in {blueprint.pages[2].fields[1]}
    /\ result = Return(Bool(TRUE))

----------------------------------------------------------------------------
(* Properties of the validation engine: validateField *)

IsFieldCall == call.op = "validateField"

\* the rules the validated field declares
Declared == IF "validations" \in DOMAIN field THEN field.validations ELSE <<>>

\* the errors of the result that were raised by a rule of the given kind
ErrorsOfKind(kind) == SelectSeq(result.value, LAMBDA e : e.rule = kind)
DeclaredOfKind(kind) == SelectSeq(Declared, LAMBDA r : r.type = kind)

\* C17: validateField returns one error for each declared rule that fails and
\* none for a rule that passes, in the order of declaration, each rule judged
\* on its own; a field without rules yields the empty list.
C17_Failing == {i \in 1..Len(Declared) : ValidateRule(field, fieldValue, Declared[i], heap) # NoError}
C17_OneErrorPerFailingRule ==
    IsFieldCall =>
        /\ result.kind = "return"
        /\ Len(result.value) = Cardinality(C17_Failing)
        /\ \E pick \in [1..Len(result.value) -> C17_Failing] :
              /\ \A j, k \in 1..Len(result.value) : j < k => pick[j] < pick[k]
              /\ \A k \in 1..Len(result.value) :
                    result.value[k] = ValidateRule(field, fieldValue, Declared[pick[k]], heap)
        /\ Declared = <<>> => result.value = <<>>
C17_Witness ==
    /\ IsFieldCall /\ Len(Declared) = 2 /\ C17_Failing = {1, 2}
    /\ Declared[1].type = "min_length" /\ Declared[2].type = "required"
    /\ Len(result.value) = 2
    /\ result.value[1].rule = "min_length" /\ result.value[2].rule = "required"

\* absent (null or undefined) or the empty string
IsBlank(v) == v.t \in {"undefined", "null"} \/ (v.t = "string" /\ v.s = <<>>)

\* C18: a rule of kind required fails iff the value is null, undefined or "";
\* 0, false, [] and {} pass it.
C18_Case == IsFieldCall /\ DeclaredOfKind("required") # <<>>
C18_RequiredFailsIffBlank ==
    C18_Case =>
        /\ IsBlank(fieldValue) => Len(ErrorsOfKind("required")) = Len(DeclaredOfKind("required"))
        /\ ~IsBlank(fieldValue) => ErrorsOfKind("required") = <<>>
        /\ fieldValue \in {Num(0), Bool(FALSE), Ref(1), Ref(2)} => ErrorsOfKind("required") = <<>>
C18_Witness ==
    /\ C18_Case /\ fieldValue \in {Num(0), Bool(FALSE), Ref(1), Ref(2)}
    /\ heap[1].isArr /\ ~heap[2].isArr
    /\ result = Return(<<>>)

\* C19: min-length, max-length and pattern rules raise no error on a value
\* that is not a string, range rules none on a value that is not a number
\* (a numeric string included), and the call raises nothing.
C19_Case ==
    /\ IsFieldCall
    /\ \/ fieldValue.t # "string"
          /\ \E i \in 1..Len(Declared) : Declared[i].type \in {"min_length", "max_length", "pattern"}
       \/ fieldValue.t # "number" /\ DeclaredOfKind("range") # <<>>
C19_InapplicableRulesSkipped ==
    IsFieldCall =>
        /\ result.kind = "return"
        /\ fieldValue.t # "string" =>
              /\ ErrorsOfKind("min_length") = <<>>
              /\ ErrorsOfKind("max_length") = <<>>
              /\ ErrorsOfKind("pattern") = <<>>
        /\ fieldValue.t # "number" => ErrorsOfKind("range") = <<>>
C19_Witness ==
    /\ C19_Case /\ fieldValue = Undef /\ Len(Declared) = 2
    /\ Declared[1].type = "min_length" /\ "length" \in DOMAIN Declared[1]
    /\ Declared[2].type = "range" /\ "min" \in DOMAIN Declared[2]
    /\ result = Return(<<>>)

\* C20: a range rule on a number raises at most one error: one naming the
\* minimum when the value is below it, otherwise one naming the maximum when
\* the value is above it, otherwise none; a bound the rule does not declare is
\* never violated and a value equal to a bound passes.
C20_Case == IsFieldCall /\ fieldValue.t = "number" /\ Len(DeclaredOfKind("range")) = 1
C20_Rule == DeclaredOfKind("range")[1]
C20_BelowMin == "min" \in DOMAIN C20_Rule /\ fieldValue.n < C20_Rule.min
C20_AboveMax == "max" \in DOMAIN C20_Rule /\ fieldValue.n > C20_Rule.max
C20_RangeMinBeforeMax ==
    C20_Case =>
        LET es == ErrorsOfKind("range")
        IN /\ Len(es) <= 1
           /\ C20_BelowMin =>
                 /\ Len(es) = 1
                 /\ es[1].expectedValue = Str(<<"m", "i", "n", ":", " ">> \o ToStr(C20_Rule.min))
                 /\ es[1].actualValue = fieldValue
           /\ (~C20_BelowMin /\ C20_AboveMax) =>
                 /\ Len(es) = 1
                 /\ es[1].expectedValue = Str(<<"m", "a", "x", ":", " ">> \o ToStr(C20_Rule.max))
                 /\ es[1].actualValue = fieldValue
           /\ (~C20_BelowMin /\ ~C20_AboveMax) => es = <<>>
C20_Witness ==
    /\ C20_Case /\ C20_BelowMin /\ C20_AboveMax
    /\ Len(ErrorsOfKind("range")) = 1
    /\ ErrorsOfKind("range")[1].expectedValue = Str(<<"m", "i", "n", ":", " ", "3">>)

----------------------------------------------------------------------------
(* Properties of the validation engine: validateForm *)

IsFormCall == call.op = "validateForm"

Range(seq) == {seq[i] : i \in 1..Len(seq)}

\* the fields of the blueprint in page order, then field order
FormFields == FieldsOf(blueprint)

HasLogic(f) == "conditionalLogic" \in DOMAIN f
LogicHolds(f) ==
    EvaluateConditionalLogic(f.conditionalLogic, heap, data, blueprint) = Return(Bool(TRUE))

\* the value the field is bound to, and the rules it declares
BoundValue(f) == ResolveJSONPath(f.dataBinding.path, heap, data).value
RulesOf(f) == IF "validations" \in DOMAIN f THEN f.validations ELSE <<>>

\* the failures of the field's rules on its bound value, in rule order
Failures(f) == ValidateField(f, BoundValue(f), heap)

\* the entries of the result, in either list, that belong to the field
ItemsOf(f) ==
    SelectSeq(result.value.errors \o result.value.warnings, LAMBDA e : e.fieldId = f.id)

\* a show action whose conditions evaluate false
ShowIsOff(f) == HasLogic(f) /\ f.conditionalLogic.action = "show" /\ ~LogicHolds(f)

Hidden(f) ==
    HasLogic(f) /\ \/ f.conditionalLogic.action = "show" /\ ~LogicHolds(f)
                   \/ f.conditionalLogic.action = "hide" /\ LogicHolds(f)

\* C13: a field that conditional logic hides, by a show action that evaluates
\* false or by a hide action that evaluates true, contributes no entry to
\* errors or warnings.
C13_HiddenFieldsSkipped ==
    IsFormCall => \A f \in Range(FormFields) : Hidden(f) => ItemsOf(f) = <<>>

\* C14: a field whose conditional logic has action require and evaluates true
\* is required: an absent or empty bound value is reported as an error, also
\* when the field declares no rule of kind required.
C14_RequireEnforced ==
    IsFormCall =>
        \A f \in Range(FormFields) :
            ( /\ HasLogic(f) /\ f.conditionalLogic.action = "require" /\ LogicHolds(f)
              /\ IsBlank(BoundValue(f))
              /\ \A i \in 1..Len(RulesOf(f)) : RulesOf(f)[i].type # "required" )
            => \E e \in Range(result.value.errors) : e.fieldId = f.id

\* the failures of the validated fields, in page, field and rule order
RECURSIVE AllFailures(_)
AllFailures(fs) ==
    IF fs = <<>> THEN <<>>
    ELSE (IF ShowIsOff(Head(fs)) THEN <<>> ELSE Failures(Head(fs))) \o AllFailures(Tail(fs))

\* C15: every item of errors has severity error, every item of warnings has
\* severity warning or info, a failing rule without a severity is reported as
\* an error, every failure of a validated field is in exactly one of the two
\* lists in page, field and rule order, and isValid holds iff errors is empty.
C15_Buckets ==
    IsFormCall =>
        LET r   == result.value
            all == AllFailures(FormFields)
        IN /\ \A e \in Range(r.errors) : e.severity = "error"
           /\ \A e \in Range(r.warnings) : e.severity \in {"warning", "info"}
           /\ r.errors = SelectSeq(all, LAMBDA e : e.severity = "error")
           /\ r.warnings = SelectSeq(all, LAMBDA e : e.severity # "error")
           /\ Len(r.errors) + Len(r.warnings) = Len(all)
           /\ \A f \in Range(FormFields) : \A i \in 1..Len(RulesOf(f)) :
                 ( /\ ~ShowIsOff(f)
                   /\ "severity" \notin DOMAIN RulesOf(f)[i]
                   /\ ValidateRule(f, BoundValue(f), RulesOf(f)[i], heap) # NoError )
                 => \E e \in Range(r.errors) : e.fieldId = f.id /\ e.rule = RulesOf(f)[i].type
           /\ r.isValid <=> r.errors = <<>>
C15_Witness ==
    /\ IsFormCall /\ Len(FormFields) = 2
    /\ Len(result.value.errors) = 2 /\ Len(result.value.warnings) = 2
    /\ result.value.errors[1].fieldId = FormFields[1].id
    /\ result.value.errors[2].fieldId = FormFields[2].id
    /\ {e.severity : e \in Range(result.value.warnings)} = {"warning", "info"}
    /\ ~result.value.isValid

\* a blueprint whose only field is bound to a path the record does not hold
\* and declares one rule, of kind required with the default severity
C16_Case ==
    /\ IsFormCall /\ Len(FormFields) = 1
    /\ BoundValue(FormFields[1]) = Undef
    /\ Len(RulesOf(FormFields[1])) = 1
    /\ RulesOf(FormFields[1])[1].type = "required"
    /\ "severity" \notin DOMAIN RulesOf(FormFields[1])[1]
C16_OneRequiredError ==
    /\ result.kind = "return"
    /\ Len(result.value.errors) = 1
    /\ result.value.errors[1].rule = "required"
    /\ result.value.errors[1].fieldId = FormFields[1].id
    /\ result.value.warnings = <<>>
    /\ result.value.isValid = FALSE

\* C16 as stated: for every such blueprint, whatever fallback or default value
\* the field declares, validateForm returns exactly one error, of kind
\* required and for that field, no warnings, and isValid = false.
C16_AbsentRequired == C16_Case => C16_OneRequiredError

\* C16 amended: the same, for every such blueprint whose field is not passed
\* over (it has no show action that evaluates false).
C16_AbsentRequiredWhenValidated ==
    (C16_Case /\ ~ShowIsOff(FormFields[1])) => C16_OneRequiredError
C16_Witness ==
    /\ C16_Case /\ ~ShowIsOff(FormFields[1]) /\ C16_OneRequiredError
    /\ "fallback" \in DOMAIN FormFields[1].dataBinding
    /\ HasLogic(FormFields[1])

----------------------------------------------------------------------------
(* Properties of the operators without an evaluation branch *)

\* C30: a condition whose operator is not_contains, starts_with or ends_with
\* evaluates to false for every source value and every comparison value and
\* raises nothing; not_contains is not the negation of contains.
C30_Case == IsCondCall /\ condition.operator \in {"not_contains", "starts_with", "ends_with"}
C30_UnimplementedIsFalse == C30_Case => result = Return(Bool(FALSE))
C30_Witness ==
    /\ C30_Case /\ condition.operator = "not_contains"
    /\ condition.source = <<"$", ".", "b">> /\ condition.value = Num(5)
    /\ ResolveJSONPath(condition.source, heap, data) = Return(Str(<<"x">>))
    /\ result = Return(Bool(FALSE))

----------------------------------------------------------------------------
(* Frame of setJSONPath *)

\* the value a reference stands for, with everything below it
RECURSIVE Snapshot(_, _)
Snapshot(h, v) ==
    IF v.t # "ref" THEN v
    ELSE [isArr |-> h[v.id].isArr,
          props |-> [k \in DOMAIN h[v.id].props |-> Snapshot(h, h[v.id].props[k])]]

IsPrefix(s, t) == Len(s) <= Len(t) /\ SubSeq(t, 1, Len(s)) = s

\* the rooted paths without wildcard
ReadPaths == FramePaths

\* what resolveJSONPath(q, record) returned before and returns after the call
ReadBefore(q) == Snapshot(before, ResolveJSONPath(q, before, data).value)
ReadAfter(q)  == Snapshot(heap, ResolveJSONPath(q, heap, data).value)

\* neither path is a segment-wise prefix of the other
SegmentUnrelated(p, q) ==
    ~IsPrefix(Segments(p), Segments(q)) /\ ~IsPrefix(Segments(q), Segments(p))

\* the steps to the location of each path, name[i] being the step i below
\* the step name
LocationOf == [q \in ReadPaths |-> KeysOf(Segments(q))]

\* neither location is an ancestor of the other
LocationUnrelated(p, q) ==
    ~IsPrefix(LocationOf[p], LocationOf[q]) /\ ~IsPrefix(LocationOf[q], LocationOf[p])

----------------------------------------------------------------------------
(* Properties of getMergedFormatting *)

IsFormatCall == call.op = "getMergedFormatting"

\* the four tiers, lowest precedence first; an absent tier is the empty mapping
C21_Tiers ==
    << IF "globalStyles" \in DOMAIN blueprint
       THEN [k \in DOMAIN blueprint.globalStyles \ {"typeDefaults"} |-> blueprint.globalStyles[k]]
       ELSE <<>>,
       IF /\ "globalStyles" \in DOMAIN blueprint
          /\ "typeDefaults" \in DOMAIN blueprint.globalStyles
          /\ field.dataType \in DOMAIN blueprint.globalStyles.typeDefaults
       THEN blueprint.globalStyles.typeDefaults[field.dataType] ELSE <<>>,
       IF /\ "stylePreset" \in DOMAIN field /\ "stylePresets" \in DOMAIN blueprint
          /\ field.stylePreset \in DOMAIN blueprint.stylePresets
       THEN blueprint.stylePresets[field.stylePreset] ELSE <<>>,
       IF "formatting" \in DOMAIN field THEN field.formatting ELSE <<>> >>
C21_Defining(k) == {i \in 1..4 : k \in DOMAIN C21_Tiers[i]}
C21_Highest(k) == CHOOSE i \in C21_Defining(k) : \A j \in C21_Defining(k) : j <= i

\* C21: for every style key the merged formatting holds the value of the
\* highest tier that defines it, in the order global style (without
\* typeDefaults) < type defaults of the field's data type < the preset the
\* field names < the field's own formatting; an absent tier and an undefined
\* preset name contribute nothing; the result has no typeDefaults key.
C21_HighestTierWins ==
    IsFormatCall =>
        /\ result.kind = "return"
        /\ DOMAIN result.value = {k \in UNION {DOMAIN C21_Tiers[i] : i \in 1..4} : TRUE}
        /\ \A k \in DOMAIN result.value : result.value[k] = C21_Tiers[C21_Highest(k)][k]
        /\ "typeDefaults" \notin DOMAIN result.value
C21_Witness ==
    /\ IsFormatCall
    /\ \A i \in 1..4 : "fontSize" \in DOMAIN C21_Tiers[i]
    /\ "typeDefaults" \in DOMAIN blueprint.globalStyles
    /\ result.value.fontSize = Num(12) /\ result.value.color = Str(<<"k">>)
    /\ result.value.fontWeight = Str(<<"b">>)

----------------------------------------------------------------------------
(* Properties of the formatting utilities *)

IsCurrencyCall == call.op = "formatCurrency"

\* the whole output is wrapped in parentheses
Wrapped(s) == Len(s) >= 2 /\ s[1] = "(" /\ s[Len(s)] = ")"

\* C22: for every value, currency format, number of decimal places and
\* separator flag, the output of formatCurrency is wrapped in parentheses iff
\* the value is below zero, and it never contains a minus sign.
C22_ParenthesesIffNegative ==
    IsCurrencyCall =>
        /\ result.kind = "return"
        /\ Wrapped(result.value.s) <=> args.value < 0
        /\ \A i \in 1..Len(result.value.s) : result.value.s[i] # "-"
C22_Witness ==
    /\ IsCurrencyCall /\ args.value = -1234567 /\ args.format = "USD"
    /\ args.decimalPlaces = 2 /\ args.thousandsSeparator
    /\ result.value.s = <<"(", "$", "1", ",", "2", "3", "4", ".", "5", "7", ")">>

IsSSNCall == call.op = "formatSSN"

\* the digits of the input, in order
InputDigits == SelectSeq(args.ssn, LAMBDA c : c \in Digits)

\* C23: whenever removing the non-digit characters of the input leaves a
\* number of digits other than 9, formatSSN returns the input string
\* unchanged, whatever showSeparators and mask are.
C23_InvalidUnchanged ==
    (IsSSNCall /\ Len(InputDigits) # 9) => result = Return(Str(args.ssn))
C23_Witness ==
    /\ IsSSNCall /\ args.mask /\ args.showSeparators
    /\ args.ssn = <<"1", "2", "3", "-", "4", "5", "-", "6", "7", "8", "9", "0">>
    /\ result.value.s = args.ssn

\* C24: an input of nine digits d1..d9 gives ***-**-d6d7d8d9 when mask is
\* set (whatever showSeparators is), else d1d2d3-d4d5-d6d7d8d9 when
\* showSeparators is set, else the nine digits; no character of a masked
\* result before its last four is a digit.
C24_Expected ==
    LET d == InputDigits
        last4 == <<d[6], d[7], d[8], d[9]>>
    IN IF args.mask THEN <<"*", "*", "*", "-", "*", "*", "-">> \o last4
       ELSE IF args.showSeparators
            THEN <<d[1], d[2], d[3], "-", d[4], d[5], "-">> \o last4
            ELSE d
C24_Rendering ==
    (IsSSNCall /\ Len(InputDigits) = 9) =>
        /\ result = Return(Str(C24_Expected))
        /\ args.mask =>
             \A i \in 1..(Len(result.value.s) - 4) : result.value.s[i] \notin Digits
C24_Witness ==
    /\ IsSSNCall /\ args.mask /\ args.showSeparators
    /\ args.ssn = <<"1", "2", "3", "4", "5", "6", "7", "8", "9">>
    /\ result.value.s = <<"*", "*", "*", "-", "*", "*", "-", "6", "7", "8", "9">>

----------------------------------------------------------------------------
(* Properties of mergeBlueprints *)

IsMergeCall == call.op = "mergeBlueprints"

\* the arguments as they were when the call was made, and the blueprint
\* returned as it is now, all without identities
BaseGiven == Stringify(before, args.base)
OverlayGiven == Stringify(before, args.overlay)
Merged == Stringify(heap, result.value)

PagesOf(bp) == IF Has(bp, "pages") THEN bp.pages ELSE <<>>
PagesNumbered(bp, n) == {pg \in Range(PagesOf(bp)) : pg.pageNumber = n}
FieldsWithId(pg, id) == {f \in Range(pg.fields) : f.id = id}

\* every property of a is a property of m with the same value
Carries(m, a) == \A x \in DOMAIN a : x \in DOMAIN m /\ m[x] = a[x]

KeyedProperties == {"metadata", "globalStyles", "stylePresets"}

\* C25: in the blueprint mergeBlueprints returns, every scalar or list
\* property the overlay supplies has the overlay's value; metadata,
\* globalStyles and stylePresets hold the overlay's keys over the base's;
\* every overlay field is found on the page of its page number with all the
\* overlay's properties and the remaining properties of the base field of
\* the same id on that page; every property the overlay does not supply has
\* the base's value.
C25_OverlayOverrides ==
    (IsMergeCall /\ nsets = 0) =>
        /\ \A k \in DOMAIN OverlayGiven \ (KeyedProperties \cup {"pages"}) :
              Has(Merged, k) /\ Merged[k] = OverlayGiven[k]
        /\ \A k \in DOMAIN OverlayGiven \cap KeyedProperties :
              /\ Has(Merged, k) /\ Carries(Merged[k], OverlayGiven[k])
              /\ Has(BaseGiven, k) =>
                    \A x \in DOMAIN BaseGiven[k] \ DOMAIN OverlayGiven[k] :
                        x \in DOMAIN Merged[k] /\ Merged[k][x] = BaseGiven[k][x]
        /\ \A k \in DOMAIN BaseGiven \ DOMAIN OverlayGiven :
              Has(Merged, k) /\ Merged[k] = BaseGiven[k]
        /\ \A op \in Range(PagesOf(OverlayGiven)) : \A f \in Range(op.fields) :
              \E mp \in PagesNumbered(Merged, op.pageNumber) : \E mf \in FieldsWithId(mp, f.id) :
                  /\ Carries(mf, f)
                  /\ \A bp \in PagesNumbered(BaseGiven, op.pageNumber) :
                        \A bf \in FieldsWithId(bp, f.id) :
                            \A x \in DOMAIN bf \ DOMAIN f : x \in DOMAIN mf /\ mf[x] = bf[x]

\* the page and field objects a blueprint holds in store h
ObjectsOf(h, bp) ==
    Range(PagesOf(bp)) \cup UNION {Range(h[pid].fields) : pid \in Range(PagesOf(bp))}
GivenObjects == ObjectsOf(before, args.base) \cup ObjectsOf(before, args.overlay)

\* C27: after mergeBlueprints, and after any change made in place to the
\* blueprint it returned, every page and field object of base and of overlay
\* is as it was before the call, and the returned blueprint holds none of
\* them.
C27_Independent ==
    IsMergeCall =>
        /\ \A id \in GivenObjects : heap[id] = before[id]
        /\ ObjectsOf(heap, result.value) \cap GivenObjects = {}

\* no two fields of the blueprint, on any pages, have the same id
UniqueIds(bp) ==
    LET fs == FieldsOf([pages |-> PagesOf(bp)])
    IN \A i, j \in 1..Len(fs) : i # j => fs[i].id # fs[j].id

\* C28: when base's field ids are unique across its pages and overlay's are
\* unique across its pages, so are those of the blueprint returned, and
\* findFieldById on it gives, for every field the overlay defines, a field
\* with the overlay's properties.
C28_UniqueIds ==
    (IsMergeCall /\ nsets = 0 /\ UniqueIds(BaseGiven) /\ UniqueIds(OverlayGiven)) =>
        /\ UniqueIds(Merged)
        /\ \A op \in Range(PagesOf(OverlayGiven)) : \A f \in Range(op.fields) :
              LET r == FindFieldById(Merged, f.id)
              IN r.found /\ Carries(r.field, f)

----------------------------------------------------------------------------
(* Properties of the read-only operations *)

IsReadCall ==
    call.op \in {"resolveJSONPath", "evaluateConditionalLogic", "validateField", "validateForm",
                 "getMergedFormatting"}

\* the call just made returned what the first call with the same operation
\* and arguments returned
SameAsFirst == (call # NoCall) => (call \in DOMAIN args /\ result = args[call])

\* C26: no call of resolveJSONPath, evaluateConditionalLogic, validateField,
\* validateForm or getMergedFormatting changes the record or the blueprint
\* (blueprint.globalStyles.typeDefaults included), and after any sequence of
\* such calls a call repeated with the same arguments returns a result equal
\* to the earlier one.
C26_ReadOnly ==
    /\ [][heap' = heap /\ data' = data /\ blueprint' = blueprint]_vars
    /\ [](SameAsFirst)
C26_Witness ==
    /\ call.op = "getMergedFormatting" /\ nsets = 2
    /\ DOMAIN args = {call}
    /\ "typeDefaults" \in DOMAIN blueprint.globalStyles
    /\ FieldsOf(blueprint)[call.arg].dataType \in DOMAIN blueprint.globalStyles.typeDefaults
    /\ result.value.fontSize = Num(11)

====
